---- MODULE Spec2Model ----
(***************************************************************************)
(* A model of backend/server.py: the visa-application backend.  The four   *)
(* MongoDB collections the handlers touch are sequences of records in      *)
(* insertion (natural) order; uuid4 identifiers are drawn from counters    *)
(* and never reused; datetime.utcnow() is the clock `now` (in minutes).    *)
(* Every handler is one action; `last` holds the request it served and the *)
(* HTTP status it answered.                                                *)
(***************************************************************************)
EXTENDS Integers, Sequences, FiniteSets, TLC

VARIABLES users, admins, destinations, applications, testimonials, advisors,
          tokens, ids, now, last, inflight

vars == <<users, admins, destinations, applications, testimonials, advisors,
          tokens, ids, now, last, inflight>>
store == <<users, admins, destinations, applications, testimonials, advisors>>

\* ---------------------------------------------------------------- bounds
MaxUsers == 2
MaxDests == 2
MaxVisaTypes == 1
MaxApps == 2
MaxDocs == 1
MaxStatusApps == 1
MaxClock == 1
TickMinutes == 720

\* ------------------------------------------------------- program constants
ACCESS_TOKEN_EXPIRE_MINUTES == 1440

EVISA_COUNTRIES == {"Georgia", "Armenia", "India", "Dubai"}

EMBASSIES(country) ==
    CASE country = "Cuba" -> "Embajada de Serbia en La Habana"
      [] country = "Rusia" -> "Embajada de Serbia en Moscu"
      [] country = "Egipto" -> "Embajada de Serbia en El Cairo"
      [] OTHER -> "Consultar Embajada mas cercana"

get_visa_pickup_location(destination_country, user_residence) ==
    IF destination_country \in EVISA_COUNTRIES
    THEN "E-Visa (Electronica - No requiere recogida fisica)"
    ELSE EMBASSIES(user_residence)

\* mutant: the country code is stored and compared as given
Upper_AsGiven(s) == s

\* str.upper() on the country codes the model feeds in
Upper(s) ==
    CASE s = "rs" -> "RS"
      [] s = "ge" -> "GE"
      [] OTHER -> s

\* ------------------------------------------------------ collection helpers
\* Motor's find_one / update_one / delete_one act on the first match in
\* natural order; delete_many and find on all of them.
Matches(coll, P(_)) == {i \in 1..Len(coll) : P(coll[i])}

Exists(coll, P(_)) == Matches(coll, P) # {}

First(S) == CHOOSE i \in S : \A j \in S : i <= j

FindOne(coll, P(_)) == coll[First(Matches(coll, P))]

Find(coll, P(_)) == SelectSeq(coll, P)

InsertOne(coll, doc) == Append(coll, doc)

\* $set: the named fields take the given values, the others stay
SetFields(doc, upd) ==
    [f \in DOMAIN doc \cup DOMAIN upd |-> IF f \in DOMAIN upd THEN upd[f] ELSE doc[f]]

UpdateOne(coll, P(_), F(_)) ==
    IF Exists(coll, P)
    THEN [coll EXCEPT ![First(Matches(coll, P))] = F(@)]
    ELSE coll

DeleteMany(coll, P(_)) == SelectSeq(coll, LAMBDA d : ~P(d))

DeleteOne(coll, P(_)) ==
    IF Exists(coll, P)
    THEN LET k == First(Matches(coll, P))
         IN [i \in 1..(Len(coll) - 1) |-> IF i < k THEN coll[i] ELSE coll[i + 1]]
    ELSE coll

\* ------------------------------------------------------------- passwords
\* A stored credential is a bcrypt hash of a password or, for a legacy record,
\* the password itself.
get_password_hash(password) == [scheme |-> "bcrypt", secret |-> password]

verify_password(plain_password, hashed_password) ==
    hashed_password.secret = plain_password

\* ------------------------------------------------------------------ Init
Init ==
    /\ users = <<>>
    /\ admins = <<>>
    /\ destinations = <<>>
    /\ applications = <<>>
    /\ testimonials = <<>>
    /\ advisors = <<>>
    /\ tokens = {}
    /\ ids = [user |-> 1, admin |-> 1, dest |-> 1, visa |-> 1, app |-> 1, doc |-> 1,
             testimonial |-> 1, advisor |-> 1]
    /\ now = 0
    /\ last = [op |-> "none", code |-> 0]
    /\ inflight = {}

Reply(req, code) == last' = [req EXCEPT !.code = code]

\* datetime.utcnow() moves on between requests
Tick(limit) ==
    /\ now < limit * TickMinutes
    /\ now' = now + TickMinutes
    /\ UNCHANGED <<store, tokens, ids, last, inflight>>

\* ------------------------------------------------------- session tokens
\* What a client can put in the Authorization header: nothing, a string that is
\* no JWT, or a JWT.  A JWT carries the signature it was given: "ok" only when
\* create_access_token signed it with SECRET_KEY.
NoToken == [kind |-> "none", sub |-> "", admin_id |-> 0, exp |-> 0, sig |-> ""]
Malformed == [kind |-> "malformed", sub |-> "", admin_id |-> 0, exp |-> 0, sig |-> ""]
Forged(email) == [kind |-> "jwt", sub |-> email, admin_id |-> 0, exp |-> 0, sig |-> "bad"]

create_access_token(data, expires_delta) ==
    [kind |-> "jwt", sub |-> data.sub, admin_id |-> data.admin_id,
     exp |-> now + expires_delta, sig |-> "ok"]

\* mutant: exp is not compared with the clock
jwt_decode_ok_NoExpiry(token) ==
    /\ token.kind = "jwt"
    /\ token.sig = "ok"
    /\ token \in tokens

\* jwt.decode: the signature is SECRET_KEY's and exp has not passed
jwt_decode_ok(token) ==
    /\ token.kind = "jwt"
    /\ token.sig = "ok"
    /\ token \in tokens
    /\ ~(token.exp < now)

\* mutant: the is_active flag of the admin record is not looked at
get_current_admin_IgnoresActive(token) ==
    IF ~jwt_decode_ok(token) THEN 401
    ELSE IF ~Exists(admins, LAMBDA a : a.email = token.sub) THEN 401
    ELSE 200

\* mutant: a token that does not decode is answered 403
get_current_admin_Forbidding(token) ==
    IF ~jwt_decode_ok(token) THEN 403
    ELSE IF ~Exists(admins, LAMBDA a : a.email = token.sub) THEN 401
    ELSE IF ~FindOne(admins, LAMBDA a : a.email = token.sub).is_active THEN 400
    ELSE 200

\* Depends(get_current_admin): the status the dependency answers, 200 when it
\* lets the handler run
get_current_admin(token) ==
    IF ~jwt_decode_ok(token) THEN 401
    ELSE IF ~Exists(admins, LAMBDA a : a.email = token.sub) THEN 401
    ELSE IF ~FindOne(admins, LAMBDA a : a.email = token.sub).is_active THEN 400
    ELSE 200

current_admin(token) == FindOne(admins, LAMBDA a : a.email = token.sub)

\* ------------------------------------------------------------ admin auth
init_superadmin(admin_data) ==
    LET req == [op |-> "init_superadmin", code |-> 0, token |-> NoToken]
    IN IF Len(admins) > 0
       THEN Reply(req, 400) /\ UNCHANGED <<store, tokens, ids, now, inflight>>
       ELSE /\ admins' = InsertOne(admins,
                  [id |-> ids.admin, email |-> admin_data.email,
                   password_hash |-> get_password_hash(admin_data.password),
                   full_name |-> admin_data.full_name, is_active |-> TRUE,
                   is_superadmin |-> TRUE, last_login |-> -1])
            /\ ids' = [ids EXCEPT !.admin = @ + 1]
            /\ Reply(req, 200)
            /\ UNCHANGED <<users, destinations, applications, tokens, now,
                           testimonials, advisors, inflight>>

admin_login(credentials) ==
    LET req == [op |-> "admin_login", code |-> 0, token |-> NoToken]
    IN IF ~Exists(admins, LAMBDA a : a.email = credentials.email)
       THEN Reply(req, 401) /\ UNCHANGED <<store, tokens, ids, now, inflight>>
       ELSE LET admin == FindOne(admins, LAMBDA a : a.email = credentials.email)
            IN IF ~verify_password(credentials.password, admin.password_hash)
               THEN Reply(req, 401) /\ UNCHANGED <<store, tokens, ids, now, inflight>>
               ELSE /\ admins' = UpdateOne(admins, LAMBDA a : a.id = admin.id,
                                           LAMBDA a : SetFields(a, [last_login |-> now]))
                    /\ tokens' = tokens \cup
                          {create_access_token([sub |-> admin.email, admin_id |-> admin.id],
                                               ACCESS_TOKEN_EXPIRE_MINUTES)}
                    /\ Reply(req, 200)
                    /\ UNCHANGED <<users, destinations, applications, ids, now,
                                   testimonials, advisors, inflight>>

\* POST /admin/token: the OAuth2 form of admin_login (username is the email)
admin_login_for_token(form_data) ==
    LET req == [op |-> "admin_login_for_token", code |-> 0, token |-> NoToken]
    IN IF ~Exists(admins, LAMBDA a : a.email = form_data.username)
       THEN Reply(req, 401) /\ UNCHANGED <<store, tokens, ids, now, inflight>>
       ELSE LET admin == FindOne(admins, LAMBDA a : a.email = form_data.username)
            IN IF ~verify_password(form_data.password, admin.password_hash)
               THEN Reply(req, 401) /\ UNCHANGED <<store, tokens, ids, now, inflight>>
               ELSE /\ admins' = UpdateOne(admins, LAMBDA a : a.id = admin.id,
                                           LAMBDA a : SetFields(a, [last_login |-> now]))
                    /\ tokens' = tokens \cup
                          {create_access_token([sub |-> admin.email, admin_id |-> admin.id],
                                               ACCESS_TOKEN_EXPIRE_MINUTES)}
                    /\ Reply(req, 200)
                    /\ UNCHANGED <<users, destinations, applications, ids, now,
                                   testimonials, advisors, inflight>>

\* mutant: every admin passes for a superadmin
is_superadmin_Anyone(admin) == TRUE

\* current_admin.get("is_superadmin", False)
is_superadmin(admin) == admin.is_superadmin

admin_register(token, admin_data) ==
    LET req == [op |-> "admin_register", code |-> 0, token |-> token]
        gate == get_current_admin(token)
    IN IF gate # 200
       THEN Reply(req, gate) /\ UNCHANGED <<store, tokens, ids, now, inflight>>
       ELSE IF ~is_superadmin(current_admin(token))
       THEN Reply(req, 403) /\ UNCHANGED <<store, tokens, ids, now, inflight>>
       ELSE IF Exists(admins, LAMBDA a : a.email = admin_data.email)
       THEN Reply(req, 400) /\ UNCHANGED <<store, tokens, ids, now, inflight>>
       ELSE /\ admins' = InsertOne(admins,
                  [id |-> ids.admin, email |-> admin_data.email,
                   password_hash |-> get_password_hash(admin_data.password),
                   full_name |-> admin_data.full_name, is_active |-> TRUE,
                   is_superadmin |-> FALSE, last_login |-> -1])
            /\ ids' = [ids EXCEPT !.admin = @ + 1]
            /\ Reply(req, 200)
            /\ UNCHANGED <<users, destinations, applications, tokens, now,
                           testimonials, advisors, inflight>>

\* n: the number of admin records the response lists
admin_get_all_admins(token) ==
    LET req == [op |-> "admin_get_all_admins", code |-> 0, token |-> token, n |-> 0]
        gate == get_current_admin(token)
    IN /\ IF gate # 200
          THEN Reply(req, gate)
          ELSE IF ~is_superadmin(current_admin(token))
          THEN Reply(req, 403)
          ELSE last' = [req EXCEPT !.code = 200, !.n = Len(admins)]
       /\ UNCHANGED <<store, tokens, ids, now, inflight>>

\* ------------------------------------------------------------- user auth
\* mutant: registering an email again replaces the credential stored for it
register_user_Overwrite(user_data) ==
    LET req == [op |-> "register_user", code |-> 0, email |-> user_data.email]
    IN IF Exists(users, LAMBDA u : u.email = user_data.email)
       THEN /\ users' = UpdateOne(users, LAMBDA u : u.email = user_data.email,
                  LAMBDA u : SetFields(u,
                      [password_hash |-> get_password_hash(user_data.password)]))
            /\ Reply(req, 400)
            /\ UNCHANGED <<admins, destinations, applications, tokens, ids, now,
                           testimonials, advisors, inflight>>
       ELSE /\ users' = InsertOne(users,
                  [id |-> ids.user, email |-> user_data.email,
                   password_hash |-> get_password_hash(user_data.password),
                   full_name |-> user_data.full_name, phone |-> user_data.phone,
                   passport_number |-> user_data.passport_number,
                   country_of_residence |-> user_data.country_of_residence,
                   is_active |-> TRUE, email_verified |-> FALSE,
                   verification_token |-> user_data.code,
                   verification_token_expires |-> now + 1440])
            /\ ids' = [ids EXCEPT !.user = @ + 1]
            /\ Reply(req, 200)
            /\ UNCHANGED <<admins, destinations, applications, tokens, now,
                           testimonials, advisors, inflight>>

register_user(user_data) ==
    LET req == [op |-> "register_user", code |-> 0, email |-> user_data.email]
    IN IF Exists(users, LAMBDA u : u.email = user_data.email)
       THEN Reply(req, 400) /\ UNCHANGED <<store, tokens, ids, now, inflight>>
       ELSE /\ users' = InsertOne(users,
                  [id |-> ids.user, email |-> user_data.email,
                   password_hash |-> get_password_hash(user_data.password),
                   full_name |-> user_data.full_name, phone |-> user_data.phone,
                   passport_number |-> user_data.passport_number,
                   country_of_residence |-> user_data.country_of_residence,
                   is_active |-> TRUE, email_verified |-> FALSE,
                   verification_token |-> user_data.code,
                   verification_token_expires |-> now + 1440])
            /\ ids' = [ids EXCEPT !.user = @ + 1]
            /\ Reply(req, 200)
            /\ UNCHANGED <<admins, destinations, applications, tokens, now,
                           testimonials, advisors, inflight>>

\* register_user as the event loop runs it: the handler awaits find_one, and
\* other requests are served before it resumes and awaits insert_one.
\* register_user_find is the handler up to the lookup's answer.
register_user_find(user_data) ==
    LET req == [op |-> "register_user", code |-> 0, email |-> user_data.email]
    IN IF Exists(users, LAMBDA u : u.email = user_data.email)
       THEN Reply(req, 400) /\ UNCHANGED <<store, tokens, ids, now, inflight>>
       ELSE /\ inflight' = inflight \cup {user_data}
            /\ UNCHANGED <<store, tokens, ids, now, last>>

\* register_user_insert is the rest of the handler: no second lookup, and the
\* users collection has no unique index to refuse the insert
register_user_insert(user_data) ==
    LET req == [op |-> "register_user", code |-> 0, email |-> user_data.email]
    IN /\ user_data \in inflight
       /\ inflight' = inflight \ {user_data}
       /\ users' = InsertOne(users,
              [id |-> ids.user, email |-> user_data.email,
               password_hash |-> get_password_hash(user_data.password),
               full_name |-> user_data.full_name, phone |-> user_data.phone,
               passport_number |-> user_data.passport_number,
               country_of_residence |-> user_data.country_of_residence,
               is_active |-> TRUE, email_verified |-> FALSE,
               verification_token |-> user_data.code,
               verification_token_expires |-> now + 1440])
       /\ ids' = [ids EXCEPT !.user = @ + 1]
       /\ Reply(req, 200)
       /\ UNCHANGED <<admins, destinations, applications, tokens, now, testimonials, advisors>>

\* Python's None, for a field that is cleared or a key that is missing
None == "None"

\* mutant: the expiry of the code is not looked at
code_expired_Never(token_expires) == FALSE

\* token_expires and datetime.utcnow() > token_expires (every record that has a
\* code has its expiry)
code_expired(token_expires) == now > token_expires

verify_email(data) ==
    LET req == [op |-> "verify_email", code |-> 0, email |-> data.email,
                presented |-> data.code, detail |-> ""]
    IN IF ~Exists(users, LAMBDA u : u.email = data.email)
       THEN /\ last' = [req EXCEPT !.code = 404, !.detail = "Usuario no encontrado"]
            /\ UNCHANGED <<store, tokens, ids, now, inflight>>
       ELSE LET user == FindOne(users, LAMBDA u : u.email = data.email)
            IN IF user.email_verified
               THEN /\ last' = [req EXCEPT !.code = 200, !.detail = "Email ya verificado"]
                    /\ UNCHANGED <<store, tokens, ids, now, inflight>>
               ELSE IF user.verification_token = None
                       \/ user.verification_token # data.code
               THEN /\ last' = [req EXCEPT !.code = 400,
                                           !.detail = "Codigo de verificacion incorrecto"]
                    /\ UNCHANGED <<store, tokens, ids, now, inflight>>
               ELSE IF code_expired(user.verification_token_expires)
               THEN /\ last' = [req EXCEPT !.code = 400, !.detail = "El codigo ha expirado"]
                    /\ UNCHANGED <<store, tokens, ids, now, inflight>>
               ELSE /\ users' = UpdateOne(users, LAMBDA u : u.email = data.email,
                          LAMBDA u : SetFields(u, [email_verified |-> TRUE,
                                                   verification_token |-> None]))
                    /\ last' = [req EXCEPT !.code = 200,
                                           !.detail = "Email verificado exitosamente"]
                    /\ UNCHANGED <<admins, destinations, applications, testimonials,
                                   advisors, tokens, ids, now, inflight>>

\* verification_code is the six digits secrets.randbelow draws
resend_verification(email, verification_code) ==
    LET req == [op |-> "resend_verification", code |-> 0, email |-> email,
                presented |-> None, detail |-> ""]
    IN IF email = None
       THEN /\ last' = [req EXCEPT !.code = 400, !.detail = "Email requerido"]
            /\ UNCHANGED <<store, tokens, ids, now, inflight>>
       ELSE IF ~Exists(users, LAMBDA u : u.email = email)
       THEN /\ last' = [req EXCEPT !.code = 404, !.detail = "Usuario no encontrado"]
            /\ UNCHANGED <<store, tokens, ids, now, inflight>>
       ELSE IF FindOne(users, LAMBDA u : u.email = email).email_verified
       THEN /\ last' = [req EXCEPT !.code = 200, !.detail = "Email ya esta verificado"]
            /\ UNCHANGED <<store, tokens, ids, now, inflight>>
       ELSE /\ users' = UpdateOne(users, LAMBDA u : u.email = email,
                  LAMBDA u : SetFields(u, [verification_token |-> verification_code,
                                           verification_token_expires |-> now + 1440]))
            /\ last' = [req EXCEPT !.code = 200,
                                   !.detail = "Nuevo codigo de verificacion enviado"]
            /\ UNCHANGED <<admins, destinations, applications, testimonials,
                           advisors, tokens, ids, now, inflight>>

\* the status POST /auth/login answers to these credentials in the current state
login_status_code(credentials) ==
    IF ~Exists(users, LAMBDA u : u.email = credentials.email) THEN 401
    ELSE IF ~verify_password(credentials.password,
                             FindOne(users, LAMBDA u : u.email = credentials.email).password_hash)
    THEN 401
    ELSE 200

\* not stored_password.startswith("$2") and credentials.password == stored_password
is_legacy_password(stored_password, password) ==
    stored_password.scheme # "bcrypt" /\ password = stored_password.secret

login_user(credentials) ==
    LET req == [op |-> "login_user", code |-> 0, email |-> credentials.email]
    IN IF login_status_code(credentials) # 200
       THEN Reply(req, 401) /\ UNCHANGED <<store, tokens, ids, now, inflight>>
       ELSE LET user == FindOne(users, LAMBDA u : u.email = credentials.email)
            IN /\ users' =
                     IF is_legacy_password(user.password_hash, credentials.password)
                     THEN UpdateOne(users, LAMBDA u : u.id = user.id,
                              LAMBDA u : SetFields(u,
                                  [password_hash |-> get_password_hash(credentials.password)]))
                     ELSE users
               /\ Reply(req, 200)
               /\ UNCHANGED <<admins, destinations, applications, tokens, ids, now,
                              testimonials, advisors, inflight>>

\* the status GET /user/{user_id} answers in the current state
user_status_code(user_id) ==
    IF Exists(users, LAMBDA u : u.id = user_id) THEN 200 ELSE 404

get_user(caller, user_id) ==
    /\ last' = [op |-> "get_user", code |-> user_status_code(user_id),
                caller |-> caller, user_id |-> user_id]
    /\ UNCHANGED <<store, tokens, ids, now, inflight>>

update_user(caller, user_id, update_data) ==
    LET req == [op |-> "update_user", code |-> 0, caller |-> caller, user_id |-> user_id]
    IN IF ~Exists(users, LAMBDA u : u.id = user_id)
       THEN Reply(req, 404) /\ UNCHANGED <<store, tokens, ids, now, inflight>>
       ELSE /\ users' = UpdateOne(users, LAMBDA u : u.id = user_id,
                                  LAMBDA u : SetFields(u, update_data))
            /\ Reply(req, 200)
            /\ UNCHANGED <<admins, destinations, applications, tokens, ids, now,
                           testimonials, advisors, inflight>>

admin_toggle_user(token, user_id) ==
    LET req == [op |-> "admin_toggle_user", code |-> 0, token |-> token, user_id |-> user_id]
        gate == get_current_admin(token)
    IN IF gate # 200
       THEN Reply(req, gate) /\ UNCHANGED <<store, tokens, ids, now, inflight>>
       ELSE IF ~Exists(users, LAMBDA u : u.id = user_id)
       THEN Reply(req, 404) /\ UNCHANGED <<store, tokens, ids, now, inflight>>
       ELSE /\ users' = UpdateOne(users, LAMBDA u : u.id = user_id,
                                  LAMBDA u : SetFields(u, [is_active |-> ~u.is_active]))
            /\ Reply(req, 200)
            /\ UNCHANGED <<admins, destinations, applications, tokens, ids, now,
                           testimonials, advisors, inflight>>

\* ----------------------------------------------------------- destinations
create_destination(token, dest_data) ==
    LET req == [op |-> "create_destination", code |-> 0, token |-> token]
        gate == get_current_admin(token)
    IN IF gate # 200
       THEN Reply(req, gate) /\ UNCHANGED <<store, tokens, ids, now, inflight>>
       ELSE IF Exists(destinations, LAMBDA d : d.country_code = Upper(dest_data.country_code))
       THEN Reply(req, 400) /\ UNCHANGED <<store, tokens, ids, now, inflight>>
       ELSE /\ destinations' = InsertOne(destinations,
                  [id |-> ids.dest, country |-> dest_data.country,
                   country_code |-> Upper(dest_data.country_code),
                   enabled |-> dest_data.enabled, message |-> dest_data.message,
                   visa_types |-> <<>>])
            /\ ids' = [ids EXCEPT !.dest = @ + 1]
            /\ Reply(req, 200)
            /\ UNCHANGED <<users, admins, applications, tokens, now,
                           testimonials, advisors, inflight>>

update_destination(token, destination_id, update_data) ==
    LET req == [op |-> "update_destination", code |-> 0, token |-> token]
        gate == get_current_admin(token)
    IN IF gate # 200
       THEN Reply(req, gate) /\ UNCHANGED <<store, tokens, ids, now, inflight>>
       ELSE IF ~Exists(destinations, LAMBDA d : d.id = destination_id)
       THEN Reply(req, 404) /\ UNCHANGED <<store, tokens, ids, now, inflight>>
       ELSE /\ destinations' = UpdateOne(destinations, LAMBDA d : d.id = destination_id,
                                         LAMBDA d : SetFields(d, update_data))
            /\ Reply(req, 200)
            /\ UNCHANGED <<users, admins, applications, tokens, ids, now,
                           testimonials, advisors, inflight>>

delete_destination(token, destination_id) ==
    LET req == [op |-> "delete_destination", code |-> 0, token |-> token]
        gate == get_current_admin(token)
    IN IF gate # 200
       THEN Reply(req, gate) /\ UNCHANGED <<store, tokens, ids, now, inflight>>
       ELSE IF ~Exists(destinations, LAMBDA d : d.id = destination_id)
       THEN Reply(req, 404) /\ UNCHANGED <<store, tokens, ids, now, inflight>>
       ELSE /\ destinations' = DeleteOne(destinations, LAMBDA d : d.id = destination_id)
            /\ Reply(req, 200)
            /\ UNCHANGED <<users, admins, applications, tokens, ids, now,
                           testimonials, advisors, inflight>>

add_visa_type(token, destination_id, visa_data) ==
    LET req == [op |-> "add_visa_type", code |-> 0, token |-> token]
        gate == get_current_admin(token)
    IN IF gate # 200
       THEN Reply(req, gate) /\ UNCHANGED <<store, tokens, ids, now, inflight>>
       ELSE IF ~Exists(destinations, LAMBDA d : d.id = destination_id)
       THEN Reply(req, 404) /\ UNCHANGED <<store, tokens, ids, now, inflight>>
       ELSE /\ destinations' = UpdateOne(destinations, LAMBDA d : d.id = destination_id,
                  LAMBDA d : SetFields(d, [visa_types |-> Append(d.visa_types,
                      [id |-> ids.visa, name |-> visa_data.name, price |-> visa_data.price])]))
            /\ ids' = [ids EXCEPT !.visa = @ + 1]
            /\ Reply(req, 200)
            /\ UNCHANGED <<users, admins, applications, tokens, now,
                           testimonials, advisors, inflight>>

\* mutant: the new name and price are also written to the applications for it
update_visa_type_Propagating(token, destination_id, visa_type_id, visa_data) ==
    LET req == [op |-> "update_visa_type", code |-> 0, token |-> token]
        gate == get_current_admin(token)
    IN IF gate # 200
       THEN Reply(req, gate) /\ UNCHANGED <<store, tokens, ids, now, inflight>>
       ELSE IF ~Exists(destinations, LAMBDA d : d.id = destination_id)
       THEN Reply(req, 404) /\ UNCHANGED <<store, tokens, ids, now, inflight>>
       ELSE /\ destinations' = UpdateOne(destinations,
                  LAMBDA d : d.id = destination_id
                             /\ Exists(d.visa_types, LAMBDA v : v.id = visa_type_id),
                  LAMBDA d : SetFields(d, [visa_types |-> UpdateOne(d.visa_types,
                      LAMBDA v : v.id = visa_type_id,
                      LAMBDA v : SetFields(v, [name |-> visa_data.name,
                                               price |-> visa_data.price]))]))
            /\ applications' =
                  [k \in 1..Len(applications) |->
                      IF applications[k].visa_type_id = visa_type_id
                      THEN SetFields(applications[k], [visa_type_name |-> visa_data.name,
                                                       price |-> visa_data.price])
                      ELSE applications[k]]
            /\ Reply(req, 200)
            /\ UNCHANGED <<users, admins, tokens, ids, now, testimonials, advisors, inflight>>

\* mutant: a visa-type id the destination does not embed is answered 404
update_visa_type_NotFound(token, destination_id, visa_type_id, visa_data) ==
    LET req == [op |-> "update_visa_type", code |-> 0, token |-> token]
        gate == get_current_admin(token)
    IN IF gate # 200
       THEN Reply(req, gate) /\ UNCHANGED <<store, tokens, ids, now, inflight>>
       ELSE IF ~Exists(destinations, LAMBDA d : d.id = destination_id
                           /\ Exists(d.visa_types, LAMBDA v : v.id = visa_type_id))
       THEN Reply(req, 404) /\ UNCHANGED <<store, tokens, ids, now, inflight>>
       ELSE /\ destinations' = UpdateOne(destinations, LAMBDA d : d.id = destination_id,
                  LAMBDA d : SetFields(d, [visa_types |-> UpdateOne(d.visa_types,
                      LAMBDA v : v.id = visa_type_id,
                      LAMBDA v : SetFields(v, [name |-> visa_data.name,
                                               price |-> visa_data.price]))]))
            /\ Reply(req, 200)
            /\ UNCHANGED <<users, admins, applications, tokens, ids, now,
                           testimonials, advisors, inflight>>

\* {"id": destination_id, "visa_types.id": visa_type_id} with the positional $set:
\* the first embedded entry of that id is rewritten, and nothing when none matches
update_visa_type(token, destination_id, visa_type_id, visa_data) ==
    LET req == [op |-> "update_visa_type", code |-> 0, token |-> token]
        gate == get_current_admin(token)
    IN IF gate # 200
       THEN Reply(req, gate) /\ UNCHANGED <<store, tokens, ids, now, inflight>>
       ELSE IF ~Exists(destinations, LAMBDA d : d.id = destination_id)
       THEN Reply(req, 404) /\ UNCHANGED <<store, tokens, ids, now, inflight>>
       ELSE /\ destinations' = UpdateOne(destinations,
                  LAMBDA d : d.id = destination_id
                             /\ Exists(d.visa_types, LAMBDA v : v.id = visa_type_id),
                  LAMBDA d : SetFields(d, [visa_types |-> UpdateOne(d.visa_types,
                      LAMBDA v : v.id = visa_type_id,
                      LAMBDA v : SetFields(v, [name |-> visa_data.name,
                                               price |-> visa_data.price]))]))
            /\ Reply(req, 200)
            /\ UNCHANGED <<users, admins, applications, tokens, ids, now,
                           testimonials, advisors, inflight>>

delete_visa_type(token, destination_id, visa_type_id) ==
    LET req == [op |-> "delete_visa_type", code |-> 0, token |-> token]
        gate == get_current_admin(token)
    IN IF gate # 200
       THEN Reply(req, gate) /\ UNCHANGED <<store, tokens, ids, now, inflight>>
       ELSE /\ destinations' = UpdateOne(destinations, LAMBDA d : d.id = destination_id,
                  LAMBDA d : SetFields(d, [visa_types |->
                      DeleteMany(d.visa_types, LAMBDA v : v.id = visa_type_id)]))
            /\ Reply(req, 200)
            /\ UNCHANGED <<users, admins, applications, tokens, ids, now,
                           testimonials, advisors, inflight>>

\* ----------------------------------------------------------- applications
\* mutant: progress_step defaults to 0
VisaApplication_StepZero(given) ==
    SetFields([deposit_paid |-> 0, total_paid |-> 0, status |-> "pendiente",
               progress_step |-> 0, documents |-> <<>>, notes |-> "",
               admin_notes |-> "", created_at |-> now, updated_at |-> now],
              given)

\* The VisaApplication model: the fields the handler gives, the rest default
VisaApplication(given) ==
    SetFields([deposit_paid |-> 0, total_paid |-> 0, status |-> "pendiente",
               progress_step |-> 1, documents |-> <<>>, notes |-> "",
               admin_notes |-> "", created_at |-> now, updated_at |-> now],
              given)

\* mutant: the enabled flag is not looked at
destination_enabled_Skipped(destination) == TRUE

\* destination.get("enabled", False)
destination_enabled(destination) == destination.enabled

\* mutant: the id is looked up in every destination's list
find_visa_type_Anywhere(destination, visa_type_id) ==
    IF \E k \in 1..Len(destinations) :
          Exists(destinations[k].visa_types, LAMBDA vt : vt.id = visa_type_id)
    THEN LET k == CHOOSE k \in 1..Len(destinations) :
                     Exists(destinations[k].visa_types, LAMBDA vt : vt.id = visa_type_id)
         IN Find(destinations[k].visa_types, LAMBDA vt : vt.id = visa_type_id)
    ELSE <<>>

\* the loop over destination["visa_types"]: the entries of that id, in order
find_visa_type(destination, visa_type_id) ==
    Find(destination.visa_types, LAMBDA vt : vt.id = visa_type_id)

\* caller is who sent the request (0: nobody in particular); the handler takes
\* user_id from the query string and never learns the caller
create_application(caller, user_id, application_data) ==
    LET req == [op |-> "create_application", code |-> 0, detail |-> "",
                caller |-> caller, id |-> 0]
        Fail(code, detail) ==
            /\ last' = [req EXCEPT !.code = code, !.detail = detail]
            /\ UNCHANGED <<store, tokens, ids, now, inflight>>
    IN IF ~Exists(users, LAMBDA u : u.id = user_id)
       THEN Fail(404, "Usuario no encontrado")
       ELSE IF ~Exists(destinations, LAMBDA d : d.id = application_data.destination_id)
       THEN Fail(404, "Destino no encontrado")
       ELSE LET user == FindOne(users, LAMBDA u : u.id = user_id)
                destination == FindOne(destinations,
                                       LAMBDA d : d.id = application_data.destination_id)
                found == find_visa_type(destination, application_data.visa_type_id)
            IN IF ~destination_enabled(destination)
               THEN Fail(400, "Este destino no esta disponible aun")
               ELSE IF Len(found) = 0
               THEN Fail(404, "Tipo de visa no encontrado")
               ELSE LET visa_type == found[1]
                        application == VisaApplication(
                            [id |-> ids.app, user_id |-> user_id,
                             user_email |-> user.email, user_name |-> user.full_name,
                             user_phone |-> user.phone,
                             passport_number |-> user.passport_number,
                             country_of_residence |-> user.country_of_residence,
                             destination_id |-> destination.id,
                             destination_country |-> destination.country,
                             visa_type_id |-> visa_type.id,
                             visa_type_name |-> visa_type.name,
                             price |-> visa_type.price,
                             embassy_location |-> get_visa_pickup_location(
                                 destination.country, user.country_of_residence),
                             notes |-> application_data.notes])
                    IN /\ applications' = InsertOne(applications, application)
                       /\ ids' = [ids EXCEPT !.app = @ + 1]
                       /\ last' = [req EXCEPT !.code = 200, !.id = application.id,
                                              !.detail = "Solicitud creada exitosamente"]
                       /\ UNCHANGED <<users, admins, destinations, tokens, now,
                                      testimonials, advisors, inflight>>

\* GET /applications/user/{user_id} and GET /applications/{application_id}: what
\* they answer in the current state
user_applications(user_id) == Find(applications, LAMBDA a : a.user_id = user_id)

application_status_code(application_id) ==
    IF Exists(applications, LAMBDA a : a.id = application_id) THEN 200 ELSE 404

get_user_applications(caller, user_id) ==
    /\ last' = [op |-> "get_user_applications", code |-> 200, caller |-> caller,
                user_id |-> user_id, n |-> Len(user_applications(user_id))]
    /\ UNCHANGED <<store, tokens, ids, now, inflight>>

get_application(caller, application_id) ==
    /\ last' = [op |-> "get_application", code |-> application_status_code(application_id),
                caller |-> caller, id |-> application_id]
    /\ UNCHANGED <<store, tokens, ids, now, inflight>>

\* mutant: the user_id of the query is not compared with the application's
upload_document_AnyUser(caller, application_id, user_id, doc_data) ==
    LET req == [op |-> "upload_document", code |-> 0, caller |-> caller,
                user_id |-> user_id, id |-> application_id, document_id |-> 0]
    IN IF ~Exists(applications, LAMBDA a : a.id = application_id)
       THEN Reply(req, 404) /\ UNCHANGED <<store, tokens, ids, now, inflight>>
       ELSE /\ applications' = UpdateOne(applications, LAMBDA a : a.id = application_id,
                  LAMBDA a : SetFields(a,
                      [documents |-> Append(a.documents,
                           [id |-> ids.doc, name |-> doc_data.file_name,
                            uploaded_at |-> now]),
                       updated_at |-> now]))
            /\ ids' = [ids EXCEPT !.doc = @ + 1]
            /\ last' = [req EXCEPT !.code = 200, !.document_id = ids.doc]
            /\ UNCHANGED <<users, admins, destinations, tokens, now,
                           testimonials, advisors, inflight>>

upload_document(caller, application_id, user_id, doc_data) ==
    LET req == [op |-> "upload_document", code |-> 0, caller |-> caller,
                user_id |-> user_id, id |-> application_id, document_id |-> 0]
    IN IF ~Exists(applications, LAMBDA a : a.id = application_id)
       THEN Reply(req, 404) /\ UNCHANGED <<store, tokens, ids, now, inflight>>
       ELSE IF FindOne(applications, LAMBDA a : a.id = application_id).user_id # user_id
       THEN Reply(req, 403) /\ UNCHANGED <<store, tokens, ids, now, inflight>>
       ELSE /\ applications' = UpdateOne(applications, LAMBDA a : a.id = application_id,
                  LAMBDA a : SetFields(a,
                      [documents |-> Append(a.documents,
                           [id |-> ids.doc, name |-> doc_data.file_name,
                            uploaded_at |-> now]),
                       updated_at |-> now]))
            /\ ids' = [ids EXCEPT !.doc = @ + 1]
            /\ last' = [req EXCEPT !.code = 200, !.document_id = ids.doc]
            /\ UNCHANGED <<users, admins, destinations, tokens, now,
                           testimonials, advisors, inflight>>

\* [d for d in documents if d.get("id") != document_id]
new_documents(documents, document_id) ==
    DeleteMany(documents, LAMBDA d : d.id = document_id)

\* mutant: the handler does not compare the two lengths
admin_delete_document_Silent(token, application_id, document_id) ==
    LET req == [op |-> "admin_delete_document", code |-> 0, token |-> token, detail |-> ""]
        gate == get_current_admin(token)
    IN IF gate # 200
       THEN Reply(req, gate) /\ UNCHANGED <<store, tokens, ids, now, inflight>>
       ELSE IF ~Exists(applications, LAMBDA a : a.id = application_id)
       THEN /\ last' = [req EXCEPT !.code = 404, !.detail = "Solicitud no encontrada"]
            /\ UNCHANGED <<store, tokens, ids, now, inflight>>
       ELSE /\ applications' = UpdateOne(applications, LAMBDA a : a.id = application_id,
                  LAMBDA a : SetFields(a,
                      [documents |-> new_documents(a.documents, document_id),
                       updated_at |-> now]))
            /\ Reply(req, 200)
            /\ UNCHANGED <<users, admins, destinations, tokens, ids, now,
                           testimonials, advisors, inflight>>

admin_delete_document(token, application_id, document_id) ==
    LET req == [op |-> "admin_delete_document", code |-> 0, token |-> token, detail |-> ""]
        gate == get_current_admin(token)
    IN IF gate # 200
       THEN Reply(req, gate) /\ UNCHANGED <<store, tokens, ids, now, inflight>>
       ELSE IF ~Exists(applications, LAMBDA a : a.id = application_id)
       THEN /\ last' = [req EXCEPT !.code = 404, !.detail = "Solicitud no encontrada"]
            /\ UNCHANGED <<store, tokens, ids, now, inflight>>
       ELSE LET documents == FindOne(applications, LAMBDA a : a.id = application_id).documents
            IN IF Len(new_documents(documents, document_id)) = Len(documents)
               THEN /\ last' = [req EXCEPT !.code = 404, !.detail = "Documento no encontrado"]
                    /\ UNCHANGED <<store, tokens, ids, now, inflight>>
               ELSE /\ applications' = UpdateOne(applications,
                          LAMBDA a : a.id = application_id,
                          LAMBDA a : SetFields(a,
                              [documents |-> new_documents(documents, document_id),
                               updated_at |-> now]))
                    /\ Reply(req, 200)
                    /\ UNCHANGED <<users, admins, destinations, tokens, ids, now,
                                   testimonials, advisors, inflight>>

\* mutant: the fields the body leaves out are written too, as they were created
application_update_dict_WholeBody(update_data) ==
    SetFields([updated_at |-> now, status |-> "pendiente", progress_step |-> 1,
               admin_notes |-> "", deposit_paid |-> 0, total_paid |-> 0],
              [f \in DOMAIN update_data \cap
                     {"status", "progress_step", "admin_notes", "deposit_paid", "total_paid"}
                 |-> update_data[f]])

\* admin_delete_document as the event loop runs it.
\* Up to the answer of find_one: the gate, the two 404s, and the filtered copy
\* of the list that was read, kept by the request in flight
admin_delete_document_find(client, token, application_id, document_id) ==
    LET req == [op |-> "admin_delete_document", code |-> 0, token |-> token, detail |-> ""]
        gate == get_current_admin(token)
    IN IF gate # 200
       THEN Reply(req, gate) /\ UNCHANGED <<store, tokens, ids, now, inflight>>
       ELSE IF ~Exists(applications, LAMBDA a : a.id = application_id)
       THEN /\ last' = [req EXCEPT !.code = 404, !.detail = "Solicitud no encontrada"]
            /\ UNCHANGED <<store, tokens, ids, now, inflight>>
       ELSE LET documents == FindOne(applications, LAMBDA a : a.id = application_id).documents
            IN IF Len(new_documents(documents, document_id)) = Len(documents)
               THEN /\ last' = [req EXCEPT !.code = 404, !.detail = "Documento no encontrado"]
                    /\ UNCHANGED <<store, tokens, ids, now, inflight>>
               ELSE /\ inflight' = inflight \cup
                          {[op |-> "admin_delete_document", client |-> client,
                            pc |-> "update_one", token |-> token, id |-> application_id,
                            document_id |-> document_id,
                            new_documents |-> new_documents(documents, document_id)]}
                    /\ UNCHANGED <<store, tokens, ids, now, last>>

\* update_one({"id": application_id}, {"$set": {"documents": new_documents, ...}})
admin_delete_document_set(r) ==
    /\ r \in inflight /\ r.op = "admin_delete_document" /\ r.pc = "update_one"
    /\ applications' = UpdateOne(applications, LAMBDA a : a.id = r.id,
          LAMBDA a : SetFields(a, [documents |-> r.new_documents, updated_at |-> now]))
    /\ inflight' = (inflight \ {r}) \cup {[r EXCEPT !.pc = "done"]}
    /\ last' = [op |-> "admin_delete_document", code |-> 200, token |-> r.token,
                detail |-> "Documento eliminado exitosamente"]
    /\ UNCHANGED <<users, admins, destinations, testimonials, advisors, tokens, ids, now>>

\* mutant: updated_at is refreshed only when the body names a field
application_update_dict_LazyStamp(update_data) ==
    IF DOMAIN update_data = {}
    THEN update_data
    ELSE SetFields([updated_at |-> now],
                   [f \in DOMAIN update_data \cap
                          {"status", "progress_step", "admin_notes", "deposit_paid", "total_paid"}
                      |-> update_data[f]])

\* mutant: the status of the body is not copied into update_dict
application_update_dict_NoStatus(update_data) ==
    SetFields([updated_at |-> now],
              [f \in DOMAIN update_data \cap
                     {"progress_step", "admin_notes", "deposit_paid", "total_paid"}
                 |-> update_data[f]])

\* update_dict: updated_at always, and each field of the body that is not None
\* (update_data holds exactly the fields the body gives a value)
application_update_dict(update_data) ==
    SetFields([updated_at |-> now],
              [f \in DOMAIN update_data \cap
                     {"status", "progress_step", "admin_notes", "deposit_paid", "total_paid"}
                 |-> update_data[f]])

admin_update_application(token, application_id, update_data) ==
    LET req == [op |-> "admin_update_application", code |-> 0, token |-> token,
                id |-> application_id, was |-> ""]
        gate == get_current_admin(token)
    IN IF gate # 200
       THEN Reply(req, gate) /\ UNCHANGED <<store, tokens, ids, now, inflight>>
       ELSE IF ~Exists(applications, LAMBDA a : a.id = application_id)
       THEN Reply(req, 404) /\ UNCHANGED <<store, tokens, ids, now, inflight>>
       ELSE /\ applications' = UpdateOne(applications, LAMBDA a : a.id = application_id,
                  LAMBDA a : SetFields(a, application_update_dict(update_data)))
            /\ last' = [req EXCEPT !.code = 200,
                                   !.was = FindOne(applications,
                                               LAMBDA a : a.id = application_id).status]
            /\ UNCHANGED <<users, admins, destinations, tokens, ids, now,
                           testimonials, advisors, inflight>>

\* admin_update_application as the event loop runs it. A request in flight is a
\* record of inflight: the client that sent it, its position pc in the handler,
\* its local variables, and the order in which requests began (started) and in
\* which their writes reached the store (seq, 0 before the write).
Written == Cardinality({r \in inflight : r.seq > 0})

\* up to the answer of the first find_one: the gate, the 404, and update_dict,
\* which is built from the body and utcnow() before the next await
admin_update_application_find(client, token, application_id, update_data) ==
    LET req == [op |-> "admin_update_application", code |-> 0, token |-> token,
                id |-> application_id, was |-> ""]
        gate == get_current_admin(token)
    IN IF gate # 200
       THEN Reply(req, gate) /\ UNCHANGED <<store, tokens, ids, now, inflight>>
       ELSE IF ~Exists(applications, LAMBDA a : a.id = application_id)
       THEN Reply(req, 404) /\ UNCHANGED <<store, tokens, ids, now, inflight>>
       ELSE /\ inflight' = inflight \cup
                  {[op |-> "admin_update_application", client |-> client, pc |-> "update_one",
                    token |-> token, id |-> application_id,
                    update_dict |-> application_update_dict(update_data),
                    started |-> Cardinality(inflight), seq |-> 0]}
            /\ UNCHANGED <<store, tokens, ids, now, last>>

\* update_one({"id": application_id}, {"$set": update_dict}), one atomic write
\* of the named fields, then the find_one whose document is the response
admin_update_application_set(r) ==
    /\ r \in inflight /\ r.op = "admin_update_application" /\ r.pc = "update_one"
    /\ applications' = UpdateOne(applications, LAMBDA a : a.id = r.id,
                                 LAMBDA a : SetFields(a, r.update_dict))
    /\ inflight' = (inflight \ {r}) \cup {[r EXCEPT !.pc = "done", !.seq = Written + 1]}
    /\ last' = [op |-> "admin_update_application", code |-> 200, token |-> r.token,
                id |-> r.id, was |-> ""]
    /\ UNCHANGED <<users, admins, destinations, tokens, ids, now, testimonials, advisors>>

admin_delete_application(token, application_id) ==
    LET req == [op |-> "admin_delete_application", code |-> 0, token |-> token,
                id |-> application_id]
        gate == get_current_admin(token)
    IN IF gate # 200
       THEN Reply(req, gate) /\ UNCHANGED <<store, tokens, ids, now, inflight>>
       ELSE IF ~Exists(applications, LAMBDA a : a.id = application_id)
       THEN Reply(req, 404) /\ UNCHANGED <<store, tokens, ids, now, inflight>>
       ELSE /\ applications' = DeleteOne(applications, LAMBDA a : a.id = application_id)
            /\ Reply(req, 200)
            /\ UNCHANGED <<users, admins, destinations, tokens, ids, now,
                           testimonials, advisors, inflight>>

\* ------------------------------------------------------------ statistics
\* sum(...) over a sequence of numbers
RECURSIVE sum(_)
sum(numbers) == IF numbers = <<>> THEN 0 ELSE Head(numbers) + sum(Tail(numbers))

\* mutant: count_documents({"status": ...}) counts every application
count_documents_Any(coll, status) == Len(coll)

\* count_documents({"status": status}) on a collection
count_documents(coll, status) ==
    Cardinality({k \in 1..Len(coll) : coll[k].status = status})

\* the response field that carries the count of each status, in the order the
\* handler counts them
StatusCounts ==
    <<[status |-> "pendiente", field |-> "pending"],
      [status |-> "revision", field |-> "in_review"],
      [status |-> "aprobado", field |-> "approved"],
      [status |-> "rechazado", field |-> "rejected"],
      [status |-> "completado", field |-> "completed"]>>

\* sum(app.get("total_paid", 0) for app in applications)
total_revenue(coll) == sum([k \in 1..Len(coll) |-> coll[k].total_paid])

\* mutant: rejected applications are not left out of the pending revenue
pending_revenue_WithRejected(coll) ==
    sum([k \in 1..Len(coll) |-> coll[k].price - coll[k].total_paid])

\* sum(price - total_paid for app in applications if status not in ["rechazado"])
pending_revenue(coll) ==
    sum([k \in 1..Len(coll) |->
            IF coll[k].status # "rechazado" THEN coll[k].price - coll[k].total_paid ELSE 0])

\* the response when every read of the handler sees these collections
stats_of(apps, usrs, dests) ==
    [total_applications |-> Len(apps),
     pending |-> count_documents(apps, "pendiente"),
     in_review |-> count_documents(apps, "revision"),
     approved |-> count_documents(apps, "aprobado"),
     rejected |-> count_documents(apps, "rechazado"),
     completed |-> count_documents(apps, "completado"),
     total_revenue |-> total_revenue(apps),
     pending_revenue |-> pending_revenue(apps),
     total_users |-> Len(usrs),
     total_destinations |-> Len(dests),
     enabled_destinations |-> Cardinality({k \in 1..Len(dests) : dests[k].enabled})]

\* GET /admin/stats served with no other request between its reads
admin_get_stats(token) ==
    LET req == [op |-> "admin_get_stats", code |-> 0, token |-> token]
        gate == get_current_admin(token)
    IN IF gate # 200
       THEN Reply(req, gate) /\ UNCHANGED <<store, tokens, ids, now, inflight>>
       ELSE /\ last' = [op |-> "admin_get_stats", code |-> 200, token |-> token,
                        stats |-> stats_of(applications, users, destinations)]
            /\ UNCHANGED <<store, tokens, ids, now, inflight>>

\* GET /admin/stats as the event loop runs it: every count_documents and the
\* find are awaits. The request in flight keeps the response built so far, the
\* applications its first read saw (first), and whether every later read saw
\* the same (steady).
\* The gate and count_documents({}); a finished request of the client is dropped
admin_get_stats_begin(client, token) ==
    LET req == [op |-> "admin_get_stats", code |-> 0, token |-> token]
        gate == get_current_admin(token)
    IN IF gate # 200
       THEN Reply(req, gate) /\ UNCHANGED <<store, tokens, ids, now, inflight>>
       ELSE /\ inflight' = {r \in inflight : r.client # client} \cup
                  {[op |-> "admin_get_stats", client |-> client, pc |-> "count", token |-> token,
                    counted |-> 0,
                    first |-> applications, steady |-> TRUE,
                    stats |-> [stats_of(<<>>, <<>>, <<>>) EXCEPT
                                  !.total_applications = Len(applications)]]}
            /\ UNCHANGED <<store, tokens, ids, now, last>>

\* the five count_documents({"status": ...}), one per step
admin_get_stats_count(r) ==
    /\ r \in inflight /\ r.op = "admin_get_stats" /\ r.pc = "count"
    /\ inflight' = (inflight \ {r}) \cup
          {[r EXCEPT !.pc = IF r.counted + 1 = Len(StatusCounts) THEN "find" ELSE "count",
                     !.counted = @ + 1,
                     !.steady = @ /\ applications = r.first,
                     !.stats[StatusCounts[r.counted + 1].field] =
                         count_documents(applications, StatusCounts[r.counted + 1].status)]}
    /\ UNCHANGED <<store, tokens, ids, now, last>>

\* find().to_list(1000) and the two sums over its result
admin_get_stats_find(r) ==
    /\ r \in inflight /\ r.op = "admin_get_stats" /\ r.pc = "find"
    /\ inflight' = (inflight \ {r}) \cup
          {[r EXCEPT !.pc = "totals",
                     !.steady = @ /\ applications = r.first,
                     !.stats.total_revenue = total_revenue(applications),
                     !.stats.pending_revenue = pending_revenue(applications)]}
    /\ UNCHANGED <<store, tokens, ids, now, last>>

\* the counts of users and destinations, and the response
admin_get_stats_return(r) ==
    /\ r \in inflight /\ r.op = "admin_get_stats" /\ r.pc = "totals"
    /\ LET stats == [r.stats EXCEPT
                        !.total_users = Len(users),
                        !.total_destinations = Len(destinations),
                        !.enabled_destinations =
                            Cardinality({k \in 1..Len(destinations) : destinations[k].enabled})]
       IN /\ inflight' = (inflight \ {r}) \cup {[r EXCEPT !.pc = "done", !.stats = stats]}
          /\ last' = [op |-> "admin_get_stats", code |-> 200, token |-> r.token,
                      stats |-> stats]
    /\ UNCHANGED <<store, tokens, ids, now>>

\* mutant: the cascade is left out, only the user is deleted
owned_by_Nobody(application, user_id) == FALSE

\* delete_many({"user_id": user_id}): the applications the cascade removes
owned_by(application, user_id) == application.user_id = user_id

admin_delete_user(token, user_id) ==
    LET req == [op |-> "admin_delete_user", code |-> 0, token |-> token,
                user_id |-> user_id]
        gate == get_current_admin(token)
    IN IF gate # 200
       THEN Reply(req, gate) /\ UNCHANGED <<store, tokens, ids, now, inflight>>
       ELSE IF ~Exists(users, LAMBDA u : u.id = user_id)
       THEN Reply(req, 404) /\ UNCHANGED <<store, tokens, ids, now, inflight>>
       ELSE /\ applications' = DeleteMany(applications, LAMBDA a : owned_by(a, user_id))
            /\ users' = DeleteOne(users, LAMBDA u : u.id = user_id)
            /\ Reply(req, 200)
            /\ UNCHANGED <<admins, destinations, tokens, ids, now,
                           testimonials, advisors, inflight>>

\* create_application and admin_delete_user as the event loop runs them: each
\* find_one, insert_one, delete_many and delete_one is an await. A request in
\* flight keeps its position pc and what it read; a client's finished request
\* is dropped when it sends the next.
\* find_one({"id": user_id}) and its 404
create_application_find_user(client, user_id, application_data) ==
    LET req == [op |-> "create_application", code |-> 0, detail |-> "",
                caller |-> 0, id |-> 0]
    IN IF ~Exists(users, LAMBDA u : u.id = user_id)
       THEN /\ last' = [req EXCEPT !.code = 404, !.detail = "Usuario no encontrado"]
            /\ UNCHANGED <<store, tokens, ids, now, inflight>>
       ELSE /\ inflight' = {r \in inflight : r.client # client} \cup
                  {[op |-> "create_application", client |-> client,
                    pc |-> "find_destination", user_id |-> user_id,
                    application_data |-> application_data,
                    user |-> FindOne(users, LAMBDA u : u.id = user_id),
                    application |-> <<>>]}
            /\ UNCHANGED <<store, tokens, ids, now, last>>

\* find_one of the destination, the checks on it, and the VisaApplication
\* object, built from the user as it was read
create_application_find_destination(r) ==
    LET req == [op |-> "create_application", code |-> 0, detail |-> "",
                caller |-> 0, id |-> 0]
        Fail(code, detail) ==
            /\ last' = [req EXCEPT !.code = code, !.detail = detail]
            /\ inflight' = (inflight \ {r}) \cup {[r EXCEPT !.pc = "done"]}
            /\ UNCHANGED <<store, tokens, ids, now>>
    IN /\ r \in inflight /\ r.op = "create_application" /\ r.pc = "find_destination"
       /\ IF ~Exists(destinations, LAMBDA d : d.id = r.application_data.destination_id)
          THEN Fail(404, "Destino no encontrado")
          ELSE LET destination == FindOne(destinations,
                       LAMBDA d : d.id = r.application_data.destination_id)
                   found == find_visa_type(destination, r.application_data.visa_type_id)
               IN IF ~destination_enabled(destination)
                  THEN Fail(400, "Este destino no esta disponible aun")
                  ELSE IF Len(found) = 0
                  THEN Fail(404, "Tipo de visa no encontrado")
                  ELSE /\ inflight' = (inflight \ {r}) \cup
                             {[r EXCEPT !.pc = "insert_one",
                                 !.application = VisaApplication(
                                     [id |-> ids.app, user_id |-> r.user_id,
                                      user_email |-> r.user.email,
                                      user_name |-> r.user.full_name,
                                      user_phone |-> r.user.phone,
                                      passport_number |-> r.user.passport_number,
                                      country_of_residence |-> r.user.country_of_residence,
                                      destination_id |-> destination.id,
                                      destination_country |-> destination.country,
                                      visa_type_id |-> found[1].id,
                                      visa_type_name |-> found[1].name,
                                      price |-> found[1].price,
                                      embassy_location |-> get_visa_pickup_location(
                                          destination.country, r.user.country_of_residence),
                                      notes |-> r.application_data.notes])]}
                       /\ ids' = [ids EXCEPT !.app = @ + 1]
                       /\ UNCHANGED <<store, tokens, now, last>>

\* insert_one(application.dict()) and the response
create_application_insert(r) ==
    /\ r \in inflight /\ r.op = "create_application" /\ r.pc = "insert_one"
    /\ applications' = InsertOne(applications, r.application)
    /\ inflight' = (inflight \ {r}) \cup {[r EXCEPT !.pc = "done"]}
    /\ last' = [op |-> "create_application", code |-> 200,
                detail |-> "Solicitud creada exitosamente", caller |-> 0,
                id |-> r.application.id]
    /\ UNCHANGED <<users, admins, destinations, testimonials, advisors, tokens, ids, now>>

\* admin_delete_user: the gate, find_one({"id": user_id}) and its 404
admin_delete_user_find(client, token, user_id) ==
    LET req == [op |-> "admin_delete_user", code |-> 0, token |-> token,
                user_id |-> user_id]
        gate == get_current_admin(token)
    IN IF gate # 200
       THEN Reply(req, gate) /\ UNCHANGED <<store, tokens, ids, now, inflight>>
       ELSE IF ~Exists(users, LAMBDA u : u.id = user_id)
       THEN Reply(req, 404) /\ UNCHANGED <<store, tokens, ids, now, inflight>>
       ELSE /\ inflight' = {r \in inflight : r.client # client} \cup
                  {[op |-> "admin_delete_user", client |-> client, pc |-> "delete_many",
                    token |-> token, user_id |-> user_id]}
            /\ UNCHANGED <<store, tokens, ids, now, last>>

\* delete_many({"user_id": user_id}) on the applications
admin_delete_user_delete_many(r) ==
    /\ r \in inflight /\ r.op = "admin_delete_user" /\ r.pc = "delete_many"
    /\ applications' = DeleteMany(applications, LAMBDA a : owned_by(a, r.user_id))
    /\ inflight' = (inflight \ {r}) \cup {[r EXCEPT !.pc = "delete_one"]}
    /\ UNCHANGED <<users, admins, destinations, testimonials, advisors,
                   tokens, ids, now, last>>

\* delete_one({"id": user_id}) on the users, 404 when it deleted none
admin_delete_user_delete_one(r) ==
    /\ r \in inflight /\ r.op = "admin_delete_user" /\ r.pc = "delete_one"
    /\ users' = DeleteOne(users, LAMBDA u : u.id = r.user_id)
    /\ inflight' = (inflight \ {r}) \cup {[r EXCEPT !.pc = "done"]}
    /\ last' = [op |-> "admin_delete_user",
                code |-> IF Exists(users, LAMBDA u : u.id = r.user_id) THEN 200 ELSE 404,
                token |-> r.token, user_id |-> r.user_id]
    /\ UNCHANGED <<admins, destinations, applications, testimonials, advisors,
                   tokens, ids, now>>

\* ------------------------------------------------ testimonials and advisors
\* .sort("created_at", -1): newest first, records of one instant in the order found
RECURSIVE insert_desc(_, _)
insert_desc(r, sorted) ==
    IF sorted = <<>> THEN <<r>>
    ELSE IF r.created_at >= Head(sorted).created_at THEN <<r>> \o sorted
    ELSE <<Head(sorted)>> \o insert_desc(r, Tail(sorted))

RECURSIVE sort_created_desc(_)
sort_created_desc(coll) ==
    IF coll = <<>> THEN <<>>
    ELSE insert_desc(Head(coll), sort_created_desc(Tail(coll)))

\* .to_list(length)
to_list(coll, length) ==
    SubSeq(coll, 1, IF Len(coll) < length THEN Len(coll) ELSE length)

admin_create_testimonial(token, testimonial_data) ==
    LET req == [op |-> "admin_create_testimonial", code |-> 0, token |-> token]
        gate == get_current_admin(token)
    IN IF gate # 200
       THEN Reply(req, gate) /\ UNCHANGED <<store, tokens, ids, now, inflight>>
       ELSE /\ testimonials' = InsertOne(testimonials,
                  [id |-> ids.testimonial, client_name |-> testimonial_data.client_name,
                   created_at |-> now, is_active |-> TRUE])
            /\ ids' = [ids EXCEPT !.testimonial = @ + 1]
            /\ Reply(req, 200)
            /\ UNCHANGED <<users, admins, destinations, applications, advisors,
                           tokens, now, inflight>>

admin_toggle_testimonial(token, testimonial_id) ==
    LET req == [op |-> "admin_toggle_testimonial", code |-> 0, token |-> token]
        gate == get_current_admin(token)
    IN IF gate # 200
       THEN Reply(req, gate) /\ UNCHANGED <<store, tokens, ids, now, inflight>>
       ELSE IF ~Exists(testimonials, LAMBDA r : r.id = testimonial_id)
       THEN Reply(req, 404) /\ UNCHANGED <<store, tokens, ids, now, inflight>>
       ELSE /\ testimonials' = UpdateOne(testimonials, LAMBDA r : r.id = testimonial_id,
                  LAMBDA r : SetFields(r, [is_active |-> ~r.is_active]))
            /\ Reply(req, 200)
            /\ UNCHANGED <<users, admins, destinations, applications, advisors,
                           tokens, ids, now, inflight>>

\* the public listing: find active, sort by created_at descending, 50 at most
get_testimonials ==
    /\ last' = [op |-> "get_testimonials", code |-> 200,
                items |-> to_list(sort_created_desc(SelectSeq(testimonials, LAMBDA r : r.is_active)), 50)]
    /\ UNCHANGED <<store, tokens, ids, now, inflight>>

\* the admin listing: find all, sort by created_at descending, 100 at most
admin_get_all_testimonials(token) ==
    LET req == [op |-> "admin_get_all_testimonials", code |-> 0, token |-> token, items |-> <<>>]
        gate == get_current_admin(token)
    IN IF gate # 200
       THEN Reply(req, gate) /\ UNCHANGED <<store, tokens, ids, now, inflight>>
       ELSE /\ last' = [req EXCEPT !.code = 200,
                                   !.items = to_list(sort_created_desc(testimonials), 100)]
            /\ UNCHANGED <<store, tokens, ids, now, inflight>>

admin_create_advisor(token, advisor_data) ==
    LET req == [op |-> "admin_create_advisor", code |-> 0, token |-> token]
        gate == get_current_admin(token)
    IN IF gate # 200
       THEN Reply(req, gate) /\ UNCHANGED <<store, tokens, ids, now, inflight>>
       ELSE /\ advisors' = InsertOne(advisors,
                  [id |-> ids.advisor, name |-> advisor_data.name,
                   created_at |-> now, is_active |-> TRUE])
            /\ ids' = [ids EXCEPT !.advisor = @ + 1]
            /\ Reply(req, 200)
            /\ UNCHANGED <<users, admins, destinations, applications, testimonials,
                           tokens, now, inflight>>

admin_toggle_advisor(token, advisor_id) ==
    LET req == [op |-> "admin_toggle_advisor", code |-> 0, token |-> token]
        gate == get_current_admin(token)
    IN IF gate # 200
       THEN Reply(req, gate) /\ UNCHANGED <<store, tokens, ids, now, inflight>>
       ELSE IF ~Exists(advisors, LAMBDA r : r.id = advisor_id)
       THEN Reply(req, 404) /\ UNCHANGED <<store, tokens, ids, now, inflight>>
       ELSE /\ advisors' = UpdateOne(advisors, LAMBDA r : r.id = advisor_id,
                  LAMBDA r : SetFields(r, [is_active |-> ~r.is_active]))
            /\ Reply(req, 200)
            /\ UNCHANGED <<users, admins, destinations, applications, testimonials,
                           tokens, ids, now, inflight>>

\* the public listing: find active, in the order the collection returns them, 50 at most
get_advisors ==
    /\ last' = [op |-> "get_advisors", code |-> 200,
                items |-> to_list(SelectSeq(advisors, LAMBDA r : r.is_active), 50)]
    /\ UNCHANGED <<store, tokens, ids, now, inflight>>

\* the admin listing: find all, sort by created_at descending, 100 at most
admin_get_all_advisors(token) ==
    LET req == [op |-> "admin_get_all_advisors", code |-> 0, token |-> token, items |-> <<>>]
        gate == get_current_admin(token)
    IN IF gate # 200
       THEN Reply(req, gate) /\ UNCHANGED <<store, tokens, ids, now, inflight>>
       ELSE /\ last' = [req EXCEPT !.code = 200,
                                   !.items = to_list(sort_created_desc(advisors), 100)]
            /\ UNCHANGED <<store, tokens, ids, now, inflight>>

\* ------------------------------------------------------------ setup
\* the destinations POST /setup/init builds (country codes as written there)
DefaultDestinations ==
    <<[country |-> "Serbia", country_code |-> "RS", enabled |-> TRUE, message |-> ""],
      [country |-> "Armenia", country_code |-> "AM", enabled |-> FALSE,
       message |-> "Muy pronto disponible"],
      [country |-> "Georgia", country_code |-> "GE", enabled |-> FALSE,
       message |-> "Muy pronto disponible"],
      [country |-> "India", country_code |-> "IN", enabled |-> FALSE,
       message |-> "Muy pronto disponible"],
      [country |-> "Dubai", country_code |-> "AE", enabled |-> FALSE,
       message |-> "Muy pronto disponible"],
      [country |-> "Egipto", country_code |-> "EG", enabled |-> FALSE,
       message |-> "Muy pronto disponible"]>>

\* the Destination objects of one call: fresh ids, Serbia with its two visa types
default_destination(k) ==
    [id |-> ids.dest + k - 1,
     country |-> DefaultDestinations[k].country,
     country_code |-> DefaultDestinations[k].country_code,
     enabled |-> DefaultDestinations[k].enabled,
     message |-> DefaultDestinations[k].message,
     visa_types |-> IF k = 1
                    THEN <<[id |-> ids.visa, name |-> "Visado de Turismo", price |-> 1500],
                           [id |-> ids.visa + 1, name |-> "Visado por Contrato de Trabajo",
                            price |-> 2500]>>
                    ELSE <<>>]

\* db.admins.find_one({"email": "josemgt91@gmail.com"})
setup_admin_exists == Exists(admins, LAMBDA a : a.email = "josemgt91@gmail.com")

initialize_system ==
    LET req == [op |-> "initialize_system", code |-> 200, detail |-> ""]
        built == [k \in 1..Len(DefaultDestinations) |-> default_destination(k)]
    IN IF setup_admin_exists
       THEN /\ last' = [req EXCEPT !.detail = "Sistema ya inicializado"]
            /\ UNCHANGED <<store, tokens, ids, now, inflight>>
       ELSE /\ admins' = InsertOne(admins,
                  [id |-> ids.admin, email |-> "josemgt91@gmail.com",
                   password_hash |-> get_password_hash("Jmg910217*"),
                   full_name |-> "Jose Manuel", is_active |-> TRUE,
                   is_superadmin |-> TRUE, last_login |-> -1])
            /\ destinations' = destinations \o
                  SelectSeq(built, LAMBDA d :
                      ~Exists(destinations, LAMBDA e : e.country_code = d.country_code))
            /\ ids' = [ids EXCEPT !.admin = @ + 1,
                                  !.dest = @ + Len(DefaultDestinations), !.visa = @ + 2]
            /\ last' = [req EXCEPT !.detail = "Sistema inicializado exitosamente"]
            /\ UNCHANGED <<users, applications, tokens, now, testimonials, advisors, inflight>>

\* POST /setup/init as the event loop runs it: the lookup of the admin, its
\* insert, and for each default destination a lookup and an insert are awaits.
\* A request in flight keeps its position pc, the index k of the destination it
\* is at, and the ids of the objects it built (dest_id and visa_id of the first).
\* find_one({"email": ...}) and the early return
initialize_system_find(client) ==
    LET r == [op |-> "initialize_system", client |-> client, pc |-> "insert_admin",
              k |-> 0, dest_id |-> 0, visa_id |-> 0]
    IN IF setup_admin_exists
       THEN /\ inflight' = inflight \cup {[r EXCEPT !.pc = "done"]}
            /\ last' = [op |-> "initialize_system", code |-> 200,
                        detail |-> "Sistema ya inicializado"]
            /\ UNCHANGED <<store, tokens, ids, now>>
       ELSE /\ inflight' = inflight \cup {r}
            /\ UNCHANGED <<store, tokens, ids, now, last>>

\* insert_one(superadmin) and the construction of the six Destination objects
initialize_system_insert_admin(r) ==
    /\ r \in inflight /\ r.op = "initialize_system" /\ r.pc = "insert_admin"
    /\ admins' = InsertOne(admins,
          [id |-> ids.admin, email |-> "josemgt91@gmail.com",
           password_hash |-> get_password_hash("Jmg910217*"),
           full_name |-> "Jose Manuel", is_active |-> TRUE,
           is_superadmin |-> TRUE, last_login |-> -1])
    /\ ids' = [ids EXCEPT !.admin = @ + 1,
                          !.dest = @ + Len(DefaultDestinations), !.visa = @ + 2]
    /\ inflight' = (inflight \ {r}) \cup
          {[r EXCEPT !.pc = "find_destination", !.k = 1,
                     !.dest_id = ids.dest, !.visa_id = ids.visa]}
    /\ UNCHANGED <<users, destinations, applications, tokens, now, testimonials, advisors, last>>

\* the k-th Destination object of request r
built_destination(r) ==
    [id |-> r.dest_id + r.k - 1,
     country |-> DefaultDestinations[r.k].country,
     country_code |-> DefaultDestinations[r.k].country_code,
     enabled |-> DefaultDestinations[r.k].enabled,
     message |-> DefaultDestinations[r.k].message,
     visa_types |-> IF r.k = 1
                    THEN <<[id |-> r.visa_id, name |-> "Visado de Turismo", price |-> 1500],
                           [id |-> r.visa_id + 1, name |-> "Visado por Contrato de Trabajo",
                            price |-> 2500]>>
                    ELSE <<>>]

\* the loop goes to the next destination, or the handler returns after the last
initialize_system_advance(r) ==
    IF r.k < Len(DefaultDestinations)
    THEN /\ inflight' = (inflight \ {r}) \cup
               {[r EXCEPT !.pc = "find_destination", !.k = @ + 1]}
         /\ UNCHANGED last
    ELSE /\ inflight' = (inflight \ {r}) \cup {[r EXCEPT !.pc = "done"]}
         /\ last' = [op |-> "initialize_system", code |-> 200,
                     detail |-> "Sistema inicializado exitosamente"]

\* find_one({"country_code": dest.country_code})
initialize_system_find_destination(r) ==
    /\ r \in inflight /\ r.op = "initialize_system" /\ r.pc = "find_destination"
    /\ IF Exists(destinations,
                 LAMBDA e : e.country_code = DefaultDestinations[r.k].country_code)
       THEN initialize_system_advance(r)
       ELSE /\ inflight' = (inflight \ {r}) \cup {[r EXCEPT !.pc = "insert_destination"]}
            /\ UNCHANGED last
    /\ UNCHANGED <<store, tokens, ids, now>>

\* insert_one(dest.dict())
initialize_system_insert_destination(r) ==
    /\ r \in inflight /\ r.op = "initialize_system" /\ r.pc = "insert_destination"
    /\ destinations' = InsertOne(destinations, built_destination(r))
    /\ initialize_system_advance(r)
    /\ UNCHANGED <<users, admins, applications, tokens, ids, now, testimonials, advisors>>

\* ------------------------------------------------------------ input sets
UserIds == 1..MaxUsers
DestIds == 1..MaxDests
VisaIds == 1..MaxVisaTypes
AppIds == 1..MaxApps

AdminData == {[email |-> "root@x", password |-> "pw", full_name |-> "Root"]}
AdminLogins == {[email |-> "root@x", password |-> "pw"],
                [email |-> "root@x", password |-> "wrong"]}

UserData ==
    {[email |-> "maria@x", password |-> "pw", full_name |-> "Maria", phone |-> "53",
      passport_number |-> "CUB1", country_of_residence |-> "Cuba", code |-> "000000"],
     [email |-> "ana@x", password |-> "pw", full_name |-> "Ana", phone |-> "56",
      passport_number |-> "CHL1", country_of_residence |-> "Chile", code |-> "000000"]}

DestData ==
    {[country |-> "Serbia", country_code |-> "rs", enabled |-> FALSE, message |-> ""],
     [country |-> "Georgia", country_code |-> "GE", enabled |-> TRUE, message |-> ""]}

NewVisaData == {[name |-> "Turismo", price |-> 1500]}
VisaData == {[name |-> "Turismo", price |-> 1500], [name |-> "Trabajo", price |-> 2500]}

\* the Authorization headers the admin panel sends: the tokens its logins got
Headers == tokens

\* ------------------------------------------------- admin sign-in steps
\* what every specification needs before an admin handler can run: the first
\* admin is created, and the admin panel signs in once and keeps its token
SignIn ==
    \/ \E d \in AdminData : init_superadmin(d)
    \/ \E c \in AdminLogins : tokens = {} /\ admin_login(c)

\* --------------------------- Spec: the catalog and create_application
Maria == {d \in UserData : d.email = "maria@x"}

Next ==
    \/ SignIn
    \/ \E d \in Maria : ids.user <= MaxUsers /\ register_user(d)
    \/ \E t \in Headers, d \in DestData : ids.dest <= MaxDests /\ create_destination(t, d)
    \/ \E t \in Headers, i \in DestIds, e \in BOOLEAN :
          update_destination(t, i, [enabled |-> e])
    \/ \E t \in Headers, i \in DestIds, d \in NewVisaData :
          ids.visa <= MaxVisaTypes /\ add_visa_type(t, i, d)
    \/ \E t \in Headers, i \in DestIds, v \in VisaIds, d \in VisaData :
          update_visa_type(t, i, v, d)
    \/ \E t \in Headers, i \in DestIds, v \in VisaIds : delete_visa_type(t, i, v)
    \/ \E u \in UserIds, i \in DestIds, v \in VisaIds :
          ids.app <= MaxApps
          /\ create_application(0, u, [destination_id |-> i, visa_type_id |-> v, notes |-> ""])

Spec == Init /\ [][Next]_vars

\* ------------------------------------------------- claims C1 to C3 (Spec)
HasUser(u) == Exists(users, LAMBDA x : x.id = u)
HasDest(i) == Exists(destinations, LAMBDA d : d.id = i)
Dest(i) == FindOne(destinations, LAMBDA d : d.id = i)
HasApp(i) == Exists(applications, LAMBDA a : a.id = i)
App(i) == FindOne(applications, LAMBDA a : a.id = i)
Offers(i, v) == HasDest(i) /\ Exists(Dest(i).visa_types, LAMBDA t : t.id = v)
Offer(i, v) == FindOne(Dest(i).visa_types, LAMBDA t : t.id = v)
Body(i, v) == [destination_id |-> i, visa_type_id |-> v, notes |-> ""]

\* C1: create_application for an existing user, an enabled destination and a
\* visa type of that destination's list answers 200 and appends exactly one
\* application: status pendiente, progress_step 1, deposit_paid 0, total_paid 0,
\* no documents, and the price that visa type has in the catalog at that moment.
C1_CreateInsertsPending ==
    [][last'.op = "create_application" =>
       \A u \in UserIds, i \in DestIds, v \in VisaIds :
          (/\ HasUser(u) /\ Offers(i, v) /\ Dest(i).enabled
           /\ create_application(0, u, Body(i, v)))
          => /\ last'.code = 200
             /\ Len(applications') = Len(applications) + 1
             /\ SubSeq(applications', 1, Len(applications)) = applications
             /\ LET new == applications'[Len(applications')]
                IN /\ new.id = last'.id
                   /\ new.user_id = u /\ new.destination_id = i /\ new.visa_type_id = v
                   /\ new.status = "pendiente" /\ new.progress_step = 1
                   /\ new.deposit_paid = 0 /\ new.total_paid = 0
                   /\ new.documents = <<>>
                   /\ new.price = Offer(i, v).price]_vars

\* an application was just created at the price an update_visa_type had set
C1_Witness ==
    /\ last.op = "create_application" /\ last.code = 200
    /\ HasApp(last.id)
    /\ App(last.id).price = 2500 /\ App(last.id).status = "pendiente"
    /\ Len(applications) = 2 /\ applications[1].price = 1500
    /\ last.detail = "Solicitud creada exitosamente"

\* C2: create_application for an existing user against a destination whose
\* enabled flag is false answers 400 and changes nothing; and whenever an
\* application is added, its destination was enabled in the state it was checked in.
C2_DisabledDestinationRejected ==
    [][/\ last'.op = "create_application" =>
          \A u \in UserIds, i \in DestIds, v \in VisaIds :
             (/\ HasUser(u) /\ HasDest(i) /\ ~Dest(i).enabled
              /\ create_application(0, u, Body(i, v)))
             => (last'.code = 400 /\ UNCHANGED <<store, ids>>)
       /\ Len(applications') > Len(applications)
             => LET new == applications'[Len(applications')]
                IN HasDest(new.destination_id) /\ Dest(new.destination_id).enabled]_vars

\* a request for a visa type the destination does offer was refused because the
\* destination is disabled
C2_Witness ==
    /\ last.op = "create_application" /\ last.code = 400
    /\ last.detail = "Este destino no esta disponible aun"
    /\ \E i \in DestIds, v \in VisaIds : Offers(i, v) /\ ~Dest(i).enabled
    /\ Len(applications) = 1

\* C3 as stated: create_application for an existing user, an enabled destination
\* and a visa-type id that is not in that destination's list answers 400 and
\* creates no record.
C3_Original ==
    [][last'.op = "create_application" =>
       \A u \in UserIds, i \in DestIds, v \in VisaIds :
          (/\ HasUser(u) /\ HasDest(i) /\ Dest(i).enabled /\ ~Offers(i, v)
           /\ create_application(0, u, Body(i, v)))
          => (last'.code = 400 /\ UNCHANGED <<store, ids>>)]_vars

\* C3 amended: the same request answers 404 ("Tipo de visa no encontrado") and
\* creates no record, whether the id was never added, was removed by
\* delete_visa_type, or belongs to another destination.
C3_VisaTypeNotFound ==
    [][last'.op = "create_application" =>
       \A u \in UserIds, i \in DestIds, v \in VisaIds :
          (/\ HasUser(u) /\ HasDest(i) /\ Dest(i).enabled /\ ~Offers(i, v)
           /\ create_application(0, u, Body(i, v)))
          => (last'.code = 404 /\ UNCHANGED <<store, ids>>)]_vars

\* the refused visa-type id is one another destination offers
C3_Witness ==
    /\ last.op = "create_application" /\ last.code = 404
    /\ last.detail = "Tipo de visa no encontrado"
    /\ \E i, j \in DestIds, v \in VisaIds :
          /\ HasDest(i) /\ Dest(i).enabled /\ ~Offers(i, v)
          /\ j # i /\ Offers(j, v)

\* ------------------------- SpecUpdate: admin_update_application and the clock
Statuses == {"pendiente", "revision", "aprobado", "rechazado", "completado"}
Patchable == {"status", "progress_step", "admin_notes", "deposit_paid", "total_paid"}

OpenDest == {d \in DestData : d.enabled}

\* request bodies: none of the fields, the test suite's, the three other fields
Patches ==
    {<<>>,
     [status |-> "revision", deposit_paid |-> 750],
     [progress_step |-> 2, admin_notes |-> "nota", total_paid |-> 1500]}

\* the fixture of the update specifications: Maria, one open destination with
\* visa types, and her applications for its first visa type
Setup(max_apps) ==
    \/ SignIn
    \/ \E d \in Maria : ids.user <= MaxUsers /\ register_user(d)
    \/ \E t \in Headers, d \in OpenDest : ids.dest <= MaxDests /\ create_destination(t, d)
    \/ \E t \in Headers, d \in NewVisaData :
          ids.visa <= MaxVisaTypes /\ add_visa_type(t, 1, d)
    \/ ids.app <= max_apps /\ create_application(0, 1, Body(1, 1))

NextUpdate ==
    \/ Setup(MaxApps)
    \/ Tick(MaxClock)
    \/ \E t \in Headers, i \in AppIds, p \in Patches : admin_update_application(t, i, p)

SpecUpdate == Init /\ [][NextUpdate]_vars

\* ---------------------------- SpecStatus: status and progress_step patches
StatusPatches ==
    {[status |-> s] : s \in Statuses \cup {"archivado"}}
    \cup {[progress_step |-> n] : n \in {0, 4, 5}}

NextStatus ==
    \/ Setup(MaxStatusApps)
    \/ \E t \in Headers, i \in 1..MaxStatusApps, p \in StatusPatches : admin_update_application(t, i, p)

SpecStatus == Init /\ [][NextStatus]_vars

\* ------------------------------------------ claims C4 and C7 (SpecUpdate)
\* what admin_update_application must leave of application a under body p
Patched(a, p) ==
    [f \in DOMAIN a |->
        IF f = "updated_at" THEN now
        ELSE IF f \in DOMAIN p \cap Patchable THEN p[f]
        ELSE a[f]]

\* C4: an authorized admin_update_application on an existing application answers
\* 200, gives exactly the fields of the body their new values, sets updated_at to
\* the current time (also for an empty body) and leaves every other field, every
\* other application and every other collection as they were; on an absent id it
\* answers 404 and changes nothing.
C4_UpdateTouchesOnlyPatch ==
    [][last'.op = "admin_update_application" =>
       \A t \in Headers, i \in AppIds, p \in Patches :
          (get_current_admin(t) = 200 /\ admin_update_application(t, i, p))
          => IF HasApp(i)
             THEN /\ last'.code = 200
                  /\ Len(applications') = Len(applications)
                  /\ \A k \in 1..Len(applications) :
                        applications'[k] =
                            IF applications[k].id = i
                            THEN Patched(applications[k], p)
                            ELSE applications[k]
                  /\ UNCHANGED <<users, admins, destinations, tokens, ids, now,
                                 testimonials, advisors, inflight>>
             ELSE /\ last'.code = 404
                  /\ UNCHANGED <<store, tokens, ids, now, inflight>>]_vars

\* the test suite's update has just been applied, later than the application was
\* created and beside a second application that still has its initial values
C4_Witness ==
    /\ last.op = "admin_update_application" /\ last.code = 200
    /\ HasApp(last.id)
    /\ App(last.id).status = "revision" /\ App(last.id).deposit_paid = 750
    /\ App(last.id).total_paid = 0 /\ App(last.id).price = 1500
    /\ App(last.id).progress_step = 1
    /\ App(last.id).updated_at > App(last.id).created_at
    /\ \E j \in AppIds : j # last.id /\ HasApp(j) /\ App(j).status = "pendiente"
                          /\ App(j).updated_at = App(j).created_at

\* C7 as stated: 0 <= deposit_paid <= total_paid <= price in every application,
\* in every reachable state.
C7_PaymentsWithinPrice ==
    \A k \in 1..Len(applications) :
        /\ 0 <= applications[k].deposit_paid
        /\ applications[k].deposit_paid <= applications[k].total_paid
        /\ applications[k].total_paid <= applications[k].price

\* --------------------------------------- claims C5 and C6 (SpecStatus)
\* C5: whatever status among the five an application has, an authorized
\* admin_update_application whose body gives one of the five answers 200 and
\* leaves the application with that status and its progress_step as it was.
C5_AnyStatusToAnyStatus ==
    [][last'.op = "admin_update_application" =>
       \A t \in Headers, i \in AppIds, s \in Statuses :
          (/\ get_current_admin(t) = 200 /\ HasApp(i) /\ App(i).status \in Statuses
           /\ admin_update_application(t, i, [status |-> s]))
          => /\ last'.code = 200
             /\ \E k \in 1..Len(applications') :
                   /\ applications'[k].id = i
                   /\ applications'[k].status = s
                   /\ applications'[k].progress_step = App(i).progress_step]_vars

\* a completed application at progress_step 4 has just been put back to pendiente
C5_Witness ==
    /\ last.op = "admin_update_application" /\ last.code = 200
    /\ last.was = "completado"
    /\ HasApp(last.id)
    /\ App(last.id).status = "pendiente" /\ App(last.id).progress_step = 4

\* C6 as stated: every application's status is one of the five values and its
\* progress_step is in 1..4, in every reachable state.
C6_StatusAndStepInRange ==
    \A k \in 1..Len(applications) :
        /\ applications[k].status \in Statuses
        /\ applications[k].progress_step \in 1..4

\* ------------------------------- SpecCascade: deleting users who have applications
\* both users register, apply for the open destination's visa type, and the
\* admin deletes users; the two reads are the ones a client checks the result with
NextCascade ==
    \/ SignIn
    \/ \E d \in UserData : ids.user <= MaxUsers /\ register_user(d)
    \/ \E t \in Headers, d \in OpenDest : ids.dest <= MaxDests /\ create_destination(t, d)
    \/ \E t \in Headers, d \in NewVisaData :
          ids.visa <= MaxVisaTypes /\ add_visa_type(t, 1, d)
    \/ \E u \in UserIds : ids.app <= MaxApps /\ create_application(u, u, Body(1, 1))
    \/ \E t \in Headers, u \in UserIds : admin_delete_user(t, u)
    \/ \E u \in UserIds : get_user_applications(u, u)
    \/ \E u \in UserIds, i \in AppIds : get_application(u, i)

SpecCascade == Init /\ [][NextCascade]_vars

\* the ids of the applications of user u
AppsOf(u) == {applications[k].id : k \in {j \in 1..Len(applications) : applications[j].user_id = u}}

\* the users whose account was created and is no longer there
Deleted == {u \in UserIds : u < ids.user /\ ~HasUser(u)}

\* C8: an authorized admin_delete_user(u) on an existing user answers 200, removes
\* the user record and exactly the applications of u, and leaves the other users,
\* their applications and the rest of the store as they were; on an absent id it
\* answers 404 and deletes nothing.  From then on get_user_applications(u) returns
\* the empty list and get_application answers 404 for each application u had.
C8_DeleteUserCascades ==
    [][/\ last'.op = "admin_delete_user" =>
          \A t \in Headers, u \in UserIds :
             (get_current_admin(t) = 200 /\ admin_delete_user(t, u))
             => IF HasUser(u)
                THEN /\ last'.code = 200
                     /\ users' = SelectSeq(users, LAMBDA r : r.id # u)
                     /\ applications' = SelectSeq(applications, LAMBDA a : a.user_id # u)
                     /\ \A i \in AppsOf(u) : application_status_code(i)' = 404
                     /\ user_applications(u)' = <<>>
                     /\ UNCHANGED <<admins, destinations, tokens, ids>>
                ELSE /\ last'.code = 404
                     /\ UNCHANGED <<store, tokens, ids>>
       /\ \A u \in Deleted :
             /\ user_applications(u)' = <<>>
             /\ last'.op = "get_user_applications" /\ last'.user_id = u => last'.n = 0
             /\ \A i \in AppIds :
                   (i < ids.app /\ ~HasApp(i) /\ last'.op = "get_application" /\ last'.id = i)
                   => last'.code = 404]_vars

\* the first user, who had an application, was deleted while the second and her application
\* stayed, and the deleted application id has just been asked for: 404
C8_Witness ==
    /\ last.op = "get_application" /\ last.code = 404
    /\ last.id < ids.app
    /\ 1 \in Deleted /\ HasUser(2)
    /\ AppsOf(2) # {} /\ Len(applications) = 1
    /\ ids.app = 3

\* ------------------------------------ SpecGate: the admin endpoints and their gate
OpsData == {[email |-> "ops@x", password |-> "pw", full_name |-> "Ops"]}
GateLogins == {[email |-> d.email, password |-> d.password] : d \in AdminData \cup OpsData}

\* what a client of the admin endpoints may send: a token a login returned, no
\* header, a string that is no JWT, a JWT signed with another key
BadHeaders == {NoToken, Malformed, Forged("root@x")}
GateHeaders == tokens \cup BadHeaders

\* the requests to the endpoints declared with Depends(get_current_admin), each
\* about the first user, destination, visa type or application
GatedCall(t) ==
    \/ \E d \in OpsData : admin_register(t, d)
    \/ admin_toggle_user(t, 1)
    \/ \E d \in OpenDest : ids.dest <= MaxDests /\ create_destination(t, d)
    \/ update_destination(t, 1, [enabled |-> FALSE])
    \/ delete_destination(t, 1)
    \/ \E d \in NewVisaData : ids.visa <= MaxVisaTypes /\ add_visa_type(t, 1, d)
    \/ \E d \in NewVisaData : update_visa_type(t, 1, 1, d)
    \/ delete_visa_type(t, 1, 1)
    \/ admin_update_application(t, 1, [status |-> "revision"])
    \/ admin_delete_application(t, 1)
    \/ admin_delete_user(t, 1)

\* the two endpoints under /admin/ that take no token
OpenCall ==
    \/ \E d \in AdminData : init_superadmin(d)
    \/ \E c \in GateLogins : (~\E t \in tokens : t.sub = c.email) /\ admin_login(c)

NextGate ==
    \/ OpenCall
    \/ \E d \in Maria : ids.user <= MaxUsers /\ register_user(d)
    \/ ids.app <= MaxStatusApps /\ create_application(0, 1, Body(1, 1))
    \/ \E t \in GateHeaders : GatedCall(t)

SpecGate == Init /\ [][NextGate]_vars

\* the token does not decode (absent, no JWT, wrong signature, expired) or its
\* subject is no admin
Unauthenticated(t) ==
    ~jwt_decode_ok(t) \/ ~Exists(admins, LAMBDA a : a.email = t.sub)

\* the Authorization header of the request a response record answers
HeaderOf(r) == IF "token" \in DOMAIN r THEN r.token ELSE NoToken

Callers == 0..MaxUsers
DocData == {[file_name |-> "pasaporte.pdf", file_type |-> "application/pdf", file_data |-> "JVBERi0="]}
ProfilePatches == {[phone |-> "99"]}

NextUser ==
    \/ SignIn
    \/ \E d \in UserData : ids.user <= MaxUsers /\ register_user(d)
    \/ \E t \in Headers, d \in OpenDest : ids.dest <= MaxDests /\ create_destination(t, d)
    \/ \E t \in Headers, d \in NewVisaData :
          ids.visa <= MaxVisaTypes /\ add_visa_type(t, 1, d)
    \/ \E t \in Headers, u \in UserIds : admin_toggle_user(t, u)
    \/ \E c \in Callers, u \in UserIds :
          ids.app <= MaxStatusApps /\ create_application(c, u, Body(1, 1))
    \/ \E c \in Callers, u \in UserIds : get_user_applications(c, u)
    \/ \E c \in Callers, i \in 1..MaxStatusApps : get_application(c, i)
    \/ \E c \in Callers, u \in UserIds, i \in 1..MaxStatusApps, d \in DocData :
          ids.doc <= MaxDocs /\ upload_document(c, i, u, d)
    \/ \E c \in Callers, u \in UserIds, p \in ProfilePatches : update_user(c, u, p)

SpecUser == Init /\ [][NextUser]_vars

EndUserOps == {"create_application", "upload_document", "update_user",
               "get_user_applications", "get_application"}

\* the user whose profile or application the answered request read or changed
Target(r) ==
    IF r.op \in {"update_user", "get_user_applications"} THEN r.user_id
    ELSE IF HasApp(r.id) THEN App(r.id).user_id
    ELSE 0

\* the answered request changed state or returned somebody's data
Served(r) ==
    /\ r.op \in EndUserOps /\ r.code = 200
    /\ r.op = "get_user_applications" => r.n > 0

\* C10 as stated: an end-user operation is served only to a caller who is a
\* registered, active user and only on that caller's own profile or applications.
C10_OnlyOwnCallerActs ==
    Served(last)
    => /\ HasUser(last.caller)
       /\ FindOne(users, LAMBDA u : u.id = last.caller).is_active
       /\ Target(last) = last.caller

\* ------------- SpecPrincipal: tokens of admins who were removed or deactivated
\* No endpoint removes or deactivates an admin: such records are what the server
\* finds in db.admins when it starts, with the tokens it signed before still out.
RootAdmin(active) ==
    [id |-> 1, email |-> "root@x", password_hash |-> get_password_hash("pw"),
     full_name |-> "Root", is_active |-> active, is_superadmin |-> TRUE, last_login |-> 0]
OpsAdmin(active) ==
    [id |-> 2, email |-> "ops@x", password_hash |-> get_password_hash("pw"),
     full_name |-> "Ops", is_active |-> active, is_superadmin |-> FALSE, last_login |-> 0]

\* ops was removed, ops was deactivated, root was deactivated
FoundAdmins ==
    {<<RootAdmin(TRUE)>>,
     <<RootAdmin(TRUE), OpsAdmin(FALSE)>>,
     <<RootAdmin(FALSE), OpsAdmin(TRUE)>>}

InitPrincipal ==
    /\ users = <<>>
    /\ admins \in FoundAdmins
    /\ destinations = <<>>
    /\ applications = <<>>
    /\ testimonials = <<>>
    /\ advisors = <<>>
    /\ now = 0
    /\ tokens = {create_access_token([sub |-> a.email, admin_id |-> a.id],
                                     ACCESS_TOKEN_EXPIRE_MINUTES) :
                    a \in {RootAdmin(TRUE), OpsAdmin(TRUE)}}
    /\ ids = [user |-> 1, admin |-> 3, dest |-> 1, visa |-> 1, app |-> 1, doc |-> 1,
             testimonial |-> 1, advisor |-> 1]
    /\ last = [op |-> "none", code |-> 0]
    /\ inflight = {}

NextPrincipal ==
    \/ \E d \in Maria : ids.user <= MaxUsers /\ register_user(d)
    \/ ids.app <= MaxStatusApps /\ create_application(0, 1, Body(1, 1))
    \/ \E t \in Headers : GatedCall(t)

SpecPrincipal == InitPrincipal /\ [][NextPrincipal]_vars

\* the admin record the token names is not there / is there with is_active false
PrincipalNotFound(t) == ~Exists(admins, LAMBDA a : a.email = t.sub)
PrincipalInactive(t) ==
    /\ Exists(admins, LAMBDA a : a.email = t.sub)
    /\ ~FindOne(admins, LAMBDA a : a.email = t.sub).is_active

\* C11 as stated: a gated request with a validly signed, unexpired token whose
\* admin record is absent or inactive answers 401 or 403 and changes no state.
C11_Original ==
    [][\A t \in Headers :
          (/\ HeaderOf(last') = t /\ jwt_decode_ok(t)
           /\ (PrincipalNotFound(t) \/ PrincipalInactive(t))
           /\ GatedCall(t))
          => (last'.code \in {401, 403} /\ UNCHANGED <<store, tokens, ids>>)]_vars

\* C11 amended: such a request answers 401 when the admin record is absent and
\* 400 ("Admin desactivado") when it is inactive, and changes no state, at every
\* step at which the record is absent or inactive.
C11_AbsentOrInactiveRejected ==
    [][\A t \in Headers :
          (/\ HeaderOf(last') = t /\ jwt_decode_ok(t)
           /\ (PrincipalNotFound(t) \/ PrincipalInactive(t))
           /\ GatedCall(t))
          => /\ last'.code = (IF PrincipalNotFound(t) THEN 401 ELSE 400)
             /\ UNCHANGED <<store, tokens, ids>>]_vars

\* the deactivated superadmin's token was refused the deletion of a user who is
\* still there with her application
C11_Witness ==
    /\ last.op = "admin_delete_user" /\ last.code = 400
    /\ last.token.sub = "root@x" /\ PrincipalInactive(last.token)
    /\ HasUser(last.user_id) /\ Len(user_applications(last.user_id)) = 1

\* --------------------------- SpecAdmins: who may create and list admins
NewAdminData == OpsData \cup {[email |-> "eva@x", password |-> "pw", full_name |-> "Eva"]}
AllLogins == {[email |-> d.email, password |-> d.password] : d \in AdminData \cup NewAdminData}

NextAdmins ==
    \/ \E d \in AdminData : init_superadmin(d)
    \/ \E c \in AllLogins : (~\E t \in tokens : t.sub = c.email) /\ admin_login(c)
    \/ \E t \in Headers, d \in NewAdminData : admin_register(t, d)
    \/ \E t \in Headers : admin_get_all_admins(t)
    \/ Tick(MaxClock)

SpecAdmins == Init /\ [][NextAdmins]_vars

\* the token authenticates an active admin who is not superadmin
RegularAdmin(t) ==
    get_current_admin(t) = 200 /\ ~current_admin(t).is_superadmin

\* C12: admin_register and admin_get_all_admins called with the valid token of an
\* active admin who is not superadmin answer 403, add no admin and list none;
\* whenever admin_register adds an admin, the caller's record has is_superadmin
\* true and the one record added has is_superadmin false.
C12_OnlySuperadminManagesAdmins ==
    [][/\ \A t \in Headers, d \in NewAdminData :
             (RegularAdmin(t) /\ admin_register(t, d))
             => (last'.code = 403 /\ UNCHANGED <<store, tokens, ids>>)
       /\ \A t \in Headers :
             (RegularAdmin(t) /\ admin_get_all_admins(t))
             => (last'.code = 403 /\ last'.n = 0 /\ UNCHANGED <<store, tokens, ids>>)
       /\ (last'.op = "admin_register" /\ admins' # admins)
             => /\ get_current_admin(HeaderOf(last')) = 200
                /\ current_admin(HeaderOf(last')).is_superadmin
                /\ Len(admins') = Len(admins) + 1
                /\ SubSeq(admins', 1, Len(admins)) = admins
                /\ ~admins'[Len(admins')].is_superadmin]_vars

\* ops, an admin the superadmin registered, was refused the registration of eva
C12_Witness ==
    /\ last.op = "admin_register" /\ last.code = 403
    /\ last.token.sub = "ops@x"
    /\ Len(admins) = 2 /\ ~Exists(admins, LAMBDA a : a.email = "eva@x")

\* ------------------- SpecSetup: the two bootstrap endpoints and the catalog
SetupLogins == {[email |-> "root@x", password |-> "pw"],
                [email |-> "josemgt91@gmail.com", password |-> "Jmg910217*"]}

DestinationPatches == {[enabled |-> TRUE], [country |-> "Serbia", message |-> "Ya disponible"]}

NextSetup ==
    \/ \E d \in AdminData : init_superadmin(d)
    \/ initialize_system
    \/ \E c \in SetupLogins : tokens = {} /\ admin_login(c)
    \/ \E t \in Headers, d \in DestData :
          ids.dest <= MaxDests + Len(DefaultDestinations) /\ create_destination(t, d)
    \/ \E t \in Headers, i \in DestIds, p \in DestinationPatches : update_destination(t, i, p)
    \/ \E t \in Headers, i \in DestIds : delete_destination(t, i)

SpecSetup == Init /\ [][NextSetup]_vars

\* C13 as stated: an unauthenticated call (init_superadmin or initialize_system)
\* adds an admin record only when there is none; once an admin exists it leaves
\* the admins collection as it is.
C13_BootstrapOnlyWhenNoAdmin ==
    [][(/\ (initialize_system \/ \E d \in AdminData : init_superadmin(d))
        /\ admins' # admins)
       => admins = <<>>]_vars

\* the uppercase spellings of the country codes the requests and the setup use
UppercaseCodes == {"RS", "AM", "GE", "IN", "AE", "EG"}

\* every stored country code is uppercase and no two destinations share one
UniqueUpperCodes ==
    \A k \in 1..Len(destinations) :
        /\ destinations[k].country_code \in UppercaseCodes
        /\ \A j \in 1..Len(destinations) :
              destinations[j].country_code = destinations[k].country_code => j = k

\* C18: an authorized create_destination whose country code, in uppercase, is the
\* code of an existing destination answers 400 and inserts nothing; and after
\* every step of create_destination, update_destination, delete_destination and
\* initialize_system every stored code is uppercase and no two destinations share one.
C18_CountryCodesUniqueUppercase ==
    [][/\ \A t \in Headers, d \in DestData :
             (/\ get_current_admin(t) = 200
              /\ Exists(destinations, LAMBDA e : e.country_code = Upper(d.country_code))
              /\ create_destination(t, d))
             => (last'.code = 400 /\ UNCHANGED <<store, tokens, ids>>)
       /\ UniqueUpperCodes']_vars

\* "rs" was refused because initialize_system had stored "RS", while "GE" sits
\* there once although both initialize_system and create_destination offered it
C18_Witness ==
    /\ last.op = "create_destination" /\ last.code = 400
    /\ Exists(destinations, LAMBDA e : e.country_code = "RS" /\ e.visa_types # <<>>)
    /\ Exists(destinations, LAMBDA e : e.country_code = "GE" /\ e.enabled)
    /\ Len(destinations) = Len(DefaultDestinations)

\* --------------------------- SpecToken: logins, the clock and token expiry
FormData == {[username |-> d.email, password |-> d.password] : d \in AdminData}

\* the gated requests of this specification
TokenCall(t) ==
    \/ \E d \in OpenDest : ids.dest <= MaxDests /\ create_destination(t, d)
    \/ delete_destination(t, 1)
    \/ admin_get_all_admins(t)

NextToken ==
    \/ \E d \in AdminData : init_superadmin(d)
    \/ \E c \in AdminLogins : admin_login(c)
    \/ \E f \in FormData : admin_login_for_token(f)
    \/ Tick(MaxClock + 2)
    \/ \E t \in Headers : TokenCall(t)

SpecToken == Init /\ [][NextToken]_vars

\* C14: a token issued by admin_login or admin_login_for_token expires 24 hours
\* after the login; a gated request carrying it is rejected with 401, changing
\* nothing, exactly when the clock is past that time, and let through otherwise;
\* issued tokens are never changed or withdrawn, and a new one comes only from a
\* successful login.
C14_TokenLivesOneDay ==
    [][/\ \A t \in Headers :
             (HeaderOf(last') = t /\ TokenCall(t))
             => /\ (last'.code = 401) <=> (now > t.exp)
                /\ now > t.exp => UNCHANGED <<store, tokens, ids>>
       /\ tokens \subseteq tokens'
       /\ \A t \in tokens' \ tokens :
             /\ t.exp = now + 24 * 60
             /\ last'.op \in {"admin_login", "admin_login_for_token"}
             /\ last'.code = 200]_vars

\* a request was let through with a token at the very minute it expires, while
\* an older token of the same admin has expired
C14_Witness ==
    /\ last.op = "create_destination" /\ last.code = 200
    /\ last.token.exp = now
    /\ \E t \in tokens : t.exp < now /\ t.sub = last.token.sub

\* ------------------ SpecRegister: registering an email that is already taken
\* a second request for Maria's email, with another password and name
Impostor ==
    {[email |-> "maria@x", password |-> "other", full_name |-> "Otra", phone |-> "00",
      passport_number |-> "XXX0", country_of_residence |-> "Rusia", code |-> "111111"]}
RegisterData == UserData \cup Impostor
UserLogins == {[email |-> d.email, password |-> d.password] : d \in Maria \cup Impostor}

NextRegister ==
    \/ \E d \in RegisterData : ids.user <= MaxUsers /\ register_user(d)
    \/ \E c \in UserLogins : login_user(c)
    \/ \E u \in UserIds : get_user(u, u)
    \/ \E u \in UserIds, p \in ProfilePatches : update_user(u, u, p)
    \/ Tick(MaxClock)

SpecRegister == Init /\ [][NextRegister]_vars

\* the password a stored credential was made from
PasswordOf(user) == user.password_hash.secret

\* C15: register_user with the email of an existing user answers 400, inserts no
\* record and leaves every user record as it was; the first user is still
\* returned by get_user and still logs in with her password.
C15_DuplicateEmailRejected ==
    [][\A d \in RegisterData :
          (Exists(users, LAMBDA u : u.email = d.email) /\ register_user(d))
          => LET first == FindOne(users, LAMBDA u : u.email = d.email)
             IN /\ last'.code = 400
                /\ UNCHANGED <<store, tokens, ids>>
                /\ user_status_code(first.id)' = 200
                /\ login_status_code([email |-> first.email,
                                      password |-> PasswordOf(first)])' = 200]_vars

\* a registration for Maria's email was refused while her record, as she
\* registered it and later changed her phone, is there beside the impostor's absence
C15_Witness ==
    /\ last.op = "register_user" /\ last.code = 400 /\ last.email = "maria@x"
    /\ Len(users) = 1
    /\ PasswordOf(users[1]) = "pw" /\ users[1].full_name = "Maria"
    /\ users[1].phone = "99"

\* ------------------ SpecRace: registrations served concurrently
NextRace ==
    \/ \E d \in RegisterData :
          ids.user + Cardinality(inflight) <= MaxUsers /\ register_user_find(d)
    \/ \E d \in RegisterData : register_user_insert(d)
    \/ \E c \in UserLogins : login_user(c)
    \/ \E u \in UserIds : get_user(u, u)
    \/ Tick(MaxClock)

SpecRace == Init /\ [][NextRace]_vars

\* C16: no two user records share an email, also when the lookups and inserts
\* of concurrent registrations interleave.
C16_UniqueEmails ==
    \A i, j \in 1..Len(users) : users[i].email = users[j].email => i = j

\* ------------------ SpecLegacy: records created before passwords were hashed
\* a credential stored as the password itself
plaintext(password) == [scheme |-> "plain", secret |-> password]
Credentials == {plaintext("pw"), get_password_hash("pw")}

LegacyUser(credential) ==
    [id |-> 1, email |-> "maria@x", password_hash |-> credential,
     full_name |-> "Maria", phone |-> "53", passport_number |-> "CUB1",
     country_of_residence |-> "Cuba", is_active |-> TRUE, email_verified |-> FALSE,
     verification_token |-> "000000", verification_token_expires |-> 1440]
LegacyAdmin(credential) == [RootAdmin(TRUE) EXCEPT !.password_hash = credential]

InitLegacy ==
    /\ users \in {<<LegacyUser(c)>> : c \in Credentials}
    /\ admins \in {<<LegacyAdmin(c)>> : c \in Credentials}
    /\ destinations = <<>>
    /\ applications = <<>>
    /\ testimonials = <<>>
    /\ advisors = <<>>
    /\ now = 0
    /\ tokens = {}
    /\ ids = [user |-> 2, admin |-> 2, dest |-> 1, visa |-> 1, app |-> 1, doc |-> 1,
             testimonial |-> 1, advisor |-> 1]
    /\ last = [op |-> "none", code |-> 0]
    /\ inflight = {}

LegacyLogins == {[email |-> e, password |-> p] : e \in {"maria@x", "root@x"}, p \in {"pw", "wrong"}}
LegacyForms == {[username |-> c.email, password |-> c.password] : c \in LegacyLogins}

NextLegacy ==
    \/ \E c \in LegacyLogins : login_user(c)
    \/ \E c \in LegacyLogins : admin_login(c)
    \/ \E f \in LegacyForms : admin_login_for_token(f)
    \/ \E d \in UserData : ids.user <= MaxUsers /\ register_user(d)
    \/ \E u \in UserIds, p \in ProfilePatches : update_user(u, u, p)
    \/ Tick(MaxClock)

SpecLegacy == InitLegacy /\ [][NextLegacy]_vars

\* the credential stored for this email in a collection
CredentialOf(coll, email) == FindOne(coll, LAMBDA r : r.email = email).password_hash

\* a successful login leaves the principal's credential a hash of the password used
UserLoginMigrates ==
    \A c \in LegacyLogins :
        (login_user(c) /\ last'.code = 200)
        => CredentialOf(users, c.email)' = get_password_hash(c.password)
AdminLoginMigrates ==
    \A c \in LegacyLogins :
        (((admin_login(c) \/ admin_login_for_token([username |-> c.email,
                                                    password |-> c.password]))
          /\ last'.code = 200))
        => CredentialOf(admins, c.email)' = get_password_hash(c.password)

\* no record's hashed credential becomes plaintext
NeverDowngraded ==
    /\ \A i \in 1..Len(users) :
          users[i].password_hash.scheme = "bcrypt" => users'[i].password_hash.scheme = "bcrypt"
    /\ \A i \in 1..Len(admins) :
          admins[i].password_hash.scheme = "bcrypt"
          => admins'[i].password_hash.scheme = "bcrypt"

\* a login answered 401 changes no credential
FailedLoginKeepsCredentials ==
    (last'.op \in {"login_user", "admin_login", "admin_login_for_token"} /\ last'.code = 401)
    => /\ \A i \in 1..Len(users) : users'[i].password_hash = users[i].password_hash
       /\ \A i \in 1..Len(admins) : admins'[i].password_hash = admins[i].password_hash

\* C17: for End Users and Admins alike, a successful login against a plaintext
\* credential stores a hash of that password in its place; no step turns a hash
\* into plaintext; a failed login changes no credential.
C17_LoginMigratesPlaintext ==
    [][/\ UserLoginMigrates
       /\ AdminLoginMigrates
       /\ NeverDowngraded
       /\ FailedLoginKeepsCredentials]_vars

\* ------------------ SpecVisa: visa-type ids a destination does not embed
\* ids of visa types that exist and one that was never given out
AnyVisaIds == 1..(MaxVisaTypes + 1)
VisaRewrites == VisaData \ NewVisaData

NextVisa ==
    \/ SignIn
    \/ \E d \in Maria : ids.user <= MaxUsers /\ register_user(d)
    \/ \E t \in Headers, d \in DestData : ids.dest <= MaxDests /\ create_destination(t, d)
    \/ \E t \in Headers, i \in DestIds, e \in BOOLEAN :
          update_destination(t, i, [enabled |-> e])
    \/ \E t \in Headers, d \in NewVisaData :
          ids.visa <= MaxVisaTypes /\ add_visa_type(t, 1, d)
    \/ ids.app <= MaxStatusApps /\ create_application(0, 1, Body(1, 1))
    \/ \E t \in Headers, i \in DestIds, v \in AnyVisaIds, d \in VisaRewrites :
          update_visa_type(t, i, v, d)
    \/ \E t \in Headers, i \in DestIds, v \in AnyVisaIds : delete_visa_type(t, i, v)

SpecVisa == Init /\ [][NextVisa]_vars

\* the destination exists and embeds no visa type of this id
VisaTypeAbsent(destination_id, visa_type_id) ==
    /\ Exists(destinations, LAMBDA d : d.id = destination_id)
    /\ ~Exists(FindOne(destinations, LAMBDA d : d.id = destination_id).visa_types,
               LAMBDA v : v.id = visa_type_id)

\* C19: update_visa_type and delete_visa_type by an admin, naming a visa-type id
\* that an existing destination does not embed, answer 200 and leave every
\* destination, every application and the rest of the database unchanged.
C19_AbsentVisaTypeIsNoOp ==
    [][(last'.op \in {"update_visa_type", "delete_visa_type"})
       => \A t \in Headers, i \in DestIds, v \in AnyVisaIds :
             (/\ get_current_admin(t) = 200
              /\ VisaTypeAbsent(i, v)
              /\ \/ \E d \in VisaRewrites : update_visa_type(t, i, v, d)
                 \/ delete_visa_type(t, i, v))
             => /\ last'.code = 200
                /\ UNCHANGED <<store, ids>>]_vars

\* an update was answered 200 although the only visa type there is, embedded in
\* the first of two destinations and applied for, was not rewritten
C19_Witness ==
    /\ last.op = "update_visa_type" /\ last.code = 200
    /\ Len(destinations) = 2 /\ Len(applications) = 1
    /\ Len(destinations[1].visa_types) = 1
    /\ destinations[1].visa_types[1].name = "Turismo"
    /\ destinations[2].visa_types = <<>>

\* ------------------ SpecDocs: removing documents of an application
\* ids of documents that were uploaded and one that never was
AnyDocIds == 1..(MaxDocs + 1)

NextDocs ==
    \/ Setup(MaxStatusApps)
    \/ Tick(MaxClock)
    \/ \E d \in DocData : ids.doc <= MaxDocs /\ upload_document(1, 1, 1, d)
    \/ \E t \in Headers, i \in AppIds, k \in AnyDocIds : admin_delete_document(t, i, k)

SpecDocs == Init /\ [][NextDocs]_vars

\* the application exists and its document list has no document of this id
DocumentAbsent(application_id, document_id) ==
    /\ Exists(applications, LAMBDA a : a.id = application_id)
    /\ ~Exists(FindOne(applications, LAMBDA a : a.id = application_id).documents,
               LAMBDA d : d.id = document_id)

\* C20 as stated: removing a document id that an existing application does not
\* list answers success and changes nothing.
C20_Original ==
    [][(last'.op = "admin_delete_document")
       => \A t \in Headers, i \in AppIds, k \in AnyDocIds :
             (/\ get_current_admin(t) = 200
              /\ DocumentAbsent(i, k)
              /\ admin_delete_document(t, i, k))
             => /\ last'.code = 200
                /\ UNCHANGED <<store, ids>>]_vars

\* C20: admin_delete_document by an admin, naming a document id that an existing
\* application does not list, answers 404 "Documento no encontrado" and leaves
\* the application's documents, its updated_at and all other state unchanged.
C20_AbsentDocumentIs404 ==
    [][(last'.op = "admin_delete_document")
       => \A t \in Headers, i \in AppIds, k \in AnyDocIds :
             (/\ get_current_admin(t) = 200
              /\ DocumentAbsent(i, k)
              /\ admin_delete_document(t, i, k))
             => /\ last'.code = 404
                /\ last'.detail = "Documento no encontrado"
                /\ UNCHANGED <<store, ids>>]_vars

\* a removal was refused for its document id while the application keeps the
\* document uploaded to it
C20_Witness ==
    /\ last.op = "admin_delete_document" /\ last.code = 404
    /\ last.detail = "Documento no encontrado"
    /\ Len(applications) = 1
    /\ Len(applications[1].documents) = 1

\* ------------------ the office after its setup
\* The state the requests of SignIn, register_user, create_destination and
\* add_visa_type leave behind: root signed in, Georgia open with Turismo at
\* 1500, Maria and Ana registered, no application yet.
OfficeUser(k, d) ==
    [id |-> k, email |-> d.email, password_hash |-> get_password_hash(d.password),
     full_name |-> d.full_name, phone |-> d.phone,
     passport_number |-> d.passport_number,
     country_of_residence |-> d.country_of_residence,
     is_active |-> TRUE, email_verified |-> FALSE,
     verification_token |-> d.code, verification_token_expires |-> 1440]
OfficeDestination ==
    [id |-> 1, country |-> "Georgia", country_code |-> "GE", enabled |-> TRUE,
     message |-> "", visa_types |-> <<[id |-> 1, name |-> "Turismo", price |-> 1500]>>]

InitOffice ==
    /\ users = <<OfficeUser(1, CHOOSE d \in UserData : d.email = "maria@x"),
                 OfficeUser(2, CHOOSE d \in UserData : d.email = "ana@x")>>
    /\ admins = <<RootAdmin(TRUE)>>
    /\ destinations = <<OfficeDestination>>
    /\ applications = <<>>
    /\ testimonials = <<>>
    /\ advisors = <<>>
    /\ now = 0
    /\ tokens = {create_access_token([sub |-> "root@x", admin_id |-> 1],
                                     ACCESS_TOKEN_EXPIRE_MINUTES)}
    /\ ids = [user |-> 3, admin |-> 2, dest |-> 2, visa |-> 2, app |-> 1, doc |-> 1,
             testimonial |-> 1, advisor |-> 1]
    /\ last = [op |-> "none", code |-> 0]
    /\ inflight = {}

\* ------------------ SpecUpload: documents attached by owners and by others
NextUpload ==
    \/ \E u \in UserIds : ids.app <= MaxApps /\ create_application(0, u, Body(1, 1))
    \/ Tick(MaxClock)
    \/ \E i \in AppIds, u \in UserIds, d \in DocData :
          ids.doc <= MaxDocs + 1 /\ upload_document(0, i, u, d)

SpecUpload == InitOffice /\ [][NextUpload]_vars

\* the ids of the documents of all applications
DocumentIds ==
    UNION {{applications[k].documents[n].id : n \in 1..Len(applications[k].documents)} :
              k \in 1..Len(applications)}

\* the position of an application in the collection
IndexOf(application_id) ==
    CHOOSE k \in 1..Len(applications) : applications[k].id = application_id

\* C21: upload_document on an existing application with a user_id that is not
\* the application's answers 403 and changes nothing; with the owner's user_id
\* it answers 200, appends one document with an id no document had, after the
\* earlier documents in their order, sets updated_at to the time of the request
\* and changes no other field, no other application and nothing else.
C21_UploadOnlyByOwnerAppends ==
    [][(last'.op = "upload_document")
       => \A i \in AppIds, u \in UserIds, d \in DocData :
             (HasApp(i) /\ upload_document(0, i, u, d))
             => IF App(i).user_id # u
                THEN last'.code = 403 /\ UNCHANGED <<store, ids.doc>>
                ELSE LET k == IndexOf(i)
                         before == applications[k].documents
                         after == applications'[k].documents
                     IN /\ last'.code = 200
                        /\ Len(after) = Len(before) + 1
                        /\ SubSeq(after, 1, Len(before)) = before
                        /\ after[Len(after)].id \notin DocumentIds
                        /\ after[Len(after)].id = last'.document_id
                        /\ after[Len(after)].name = d.file_name
                        /\ applications'[k].updated_at = now
                        /\ applications' =
                              [applications EXCEPT ![k].documents = after,
                                                   ![k].updated_at = now]
                        /\ UNCHANGED <<users, admins, destinations>>]_vars

\* Ana's application got its second document, half a day after the first, after
\* which Maria's application is as it was created
C21_Witness ==
    /\ last.op = "upload_document" /\ last.code = 200 /\ last.document_id = 2
    /\ Len(applications) = 2
    /\ \E k \in 1..2 :
          /\ applications[k].user_email = "ana@x"
          /\ Len(applications[k].documents) = 2
          /\ applications[k].documents[1].id = 1
          /\ applications[k].documents[1].uploaded_at < applications[k].updated_at
          /\ applications[3 - k].documents = <<>>
          /\ applications[3 - k].updated_at = applications[3 - k].created_at

\* ------------------ SpecSnapshot: edits of what an application was copied from
SnapshotFields ==
    {"user_email", "user_name", "user_phone", "passport_number", "country_of_residence",
     "destination_country", "visa_type_name", "price", "embassy_location"}
Snapshot(application) == [f \in SnapshotFields |-> application[f]]

UserEdits == ProfilePatches \cup {[full_name |-> "Maria Perez", country_of_residence |-> "Rusia"]}
DestinationEdits == {[country |-> "Sakartvelo"]}
SourceEdits == {"update_user", "update_destination", "update_visa_type",
                "delete_visa_type", "delete_destination"}

NextSnapshot ==
    \/ \E u \in UserIds : ids.app <= MaxApps /\ create_application(0, u, Body(1, 1))
    \/ \E p \in UserEdits : update_user(1, 1, p)
    \/ \E t \in Headers, p \in DestinationEdits : update_destination(t, 1, p)
    \/ \E t \in Headers, d \in VisaRewrites : update_visa_type(t, 1, 1, d)
    \/ \E t \in Headers : delete_visa_type(t, 1, 1)
    \/ \E t \in Headers : delete_destination(t, 1)

SpecSnapshot == InitOffice /\ [][NextSnapshot]_vars

\* C22: update_user, update_destination, update_visa_type, delete_visa_type and
\* delete_destination add and remove no application and leave the snapshot
\* fields of every application as create_application wrote them.
C22_SnapshotFixedAtCreation ==
    [][(last'.op \in SourceEdits)
       => /\ Len(applications') = Len(applications)
          /\ \A k \in 1..Len(applications) :
                /\ applications'[k].id = applications[k].id
                /\ Snapshot(applications'[k]) = Snapshot(applications[k])]_vars

\* Maria's application still says Turismo at 1500 in Georgia, for Maria of Cuba
\* at 53, after she changed name, country and phone and the destination was
\* renamed and its visa type rewritten
C22_Witness ==
    /\ last.op \in SourceEdits /\ last.code = 200
    /\ Len(applications) >= 1
    /\ Snapshot(applications[1]) =
          [user_email |-> "maria@x", user_name |-> "Maria", user_phone |-> "53",
           passport_number |-> "CUB1", country_of_residence |-> "Cuba",
           destination_country |-> "Georgia", visa_type_name |-> "Turismo",
           price |-> 1500, embassy_location |-> get_visa_pickup_location("Georgia", "Cuba")]
    /\ users[1].full_name = "Maria Perez" /\ users[1].phone = "99"
    /\ users[1].country_of_residence = "Rusia"
    /\ Len(destinations) = 1 /\ destinations[1].country = "Sakartvelo"
    /\ destinations[1].visa_types = <<[id |-> 1, name |-> "Trabajo", price |-> 2500]>>

\* ------------------ SpecPatchRace: two admins update one application at once
\* two admin panels, each sending one request: they share status, and each
\* names a field the other does not
Clients == {"A", "B"}
PatchOf(client) ==
    IF client = "A" THEN [status |-> "revision", deposit_paid |-> 750]
    ELSE [status |-> "aprobado", admin_notes |-> "nota"]

NextPatchRace ==
    \/ \E u \in UserIds : ids.app <= MaxStatusApps /\ create_application(0, u, Body(1, 1))
    \/ Tick(MaxClock + 1)
    \/ \E c \in Clients, t \in Headers, i \in 1..MaxStatusApps :
          /\ \A r \in inflight : r.client # c
          /\ admin_update_application_find(c, t, i, PatchOf(c))
    \/ \E r \in inflight : admin_update_application_set(r)

SpecPatchRace == InitOffice /\ [][NextPatchRace]_vars

\* the value field f has after the writes of a and b: that of the patch that
\* named it, and when both did, of the one whose write came last
LastWrite(a, b, f) ==
    IF f \notin DOMAIN PatchOf(b.client) THEN PatchOf(a.client)[f]
    ELSE IF f \notin DOMAIN PatchOf(a.client) THEN PatchOf(b.client)[f]
    ELSE IF a.seq > b.seq THEN PatchOf(a.client)[f]
    ELSE PatchOf(b.client)[f]

\* C23: when two admin_update_application requests on one application have both
\* completed, each field named by one of the patches or both holds the value of
\* the last write that named it, whatever the order of their steps.
C23_LastWriteWinsPerField ==
    \A a, b \in inflight :
        (a.client # b.client /\ a.id = b.id /\ a.pc = "done" /\ b.pc = "done")
        => \A f \in DOMAIN PatchOf(a.client) \cup DOMAIN PatchOf(b.client) :
              App(a.id)[f] = LastWrite(a, b, f)

\* A began first and wrote last, with B's whole request in between: status and
\* updated_at are A's, admin_notes is still B's
C23_Witness ==
    \E a, b \in inflight :
        /\ a.client = "A" /\ b.client = "B" /\ a.id = b.id
        /\ a.started < b.started /\ b.seq = 1 /\ a.seq = 2
        /\ a.update_dict.updated_at < b.update_dict.updated_at
        /\ App(a.id).status = "revision" /\ App(a.id).deposit_paid = 750
        /\ App(a.id).admin_notes = "nota"
        /\ App(a.id).updated_at = a.update_dict.updated_at

\* ------------------ SpecStatsRace: statistics read while applications change
StatsPatches == {[status |-> "completado", total_paid |-> 1500]}

NextStatsRace ==
    \/ ids.app <= MaxApps /\ create_application(0, 1, Body(1, 1))
    \/ \E t \in Headers, i \in AppIds, p \in StatsPatches : admin_update_application(t, i, p)
    \/ \E t \in Headers, i \in AppIds : admin_delete_application(t, i)
    \/ \E t \in Headers :
          /\ \A r \in inflight : r.pc = "done"
          /\ admin_get_stats_begin("A", t)
    \/ \E r \in inflight : admin_get_stats_count(r)
    \/ \E r \in inflight : admin_get_stats_find(r)
    \/ \E r \in inflight : admin_get_stats_return(r)

SpecStatsRace == InitOffice /\ [][NextStatsRace]_vars

\* the answered statistics requests
Answered == {r \in inflight : r.op = "admin_get_stats" /\ r.pc = "done"}

\* the application fields of a response
OfApplications(stats) ==
    [f \in {"total_applications", "pending", "in_review", "approved", "rejected",
            "completed", "total_revenue", "pending_revenue"} |-> stats[f]]

\* C24: the statistics are not atomic with respect to concurrent writes. A
\* request whose reads all saw the same applications answers the statistics of
\* that state, its five counts adding up to the number of applications when
\* each has one of the five statuses; the reads are separate steps, and a request with a
\* create_application, admin_update_application or admin_delete_application
\* between them can answer statistics of no state (C24_Witness).
C24_StatsOfOneStateWhenSteady ==
    \A r \in Answered :
        r.steady
        => /\ OfApplications(r.stats) =
                 OfApplications(stats_of(r.first, users, destinations))
           /\ (\A k \in 1..Len(r.first) : r.first[k].status \in Statuses)
              => r.stats.pending + r.stats.in_review + r.stats.approved
                   + r.stats.rejected + r.stats.completed = Len(r.first)

\* an answer whose five counts do not add up to its total_applications although
\* every application read had one of the five statuses, and whose revenue is
\* that of more applications than it counted
C24_Witness ==
    \E r \in Answered :
        /\ ~r.steady
        /\ \A k \in 1..Len(applications) : applications[k].status \in Statuses
        /\ \A k \in 1..Len(r.first) : r.first[k].status \in Statuses
        /\ r.stats.pending + r.stats.in_review + r.stats.approved
             + r.stats.rejected + r.stats.completed # r.stats.total_applications
        /\ r.stats.total_applications = 1
        /\ r.stats.total_revenue = 2 * 1500

\* ------------------ SpecStats: statistics with no write in flight
PaymentPatches == {[status |-> "rechazado"], [total_paid |-> 500]}

NextStats ==
    \/ \E u \in UserIds : ids.app <= MaxApps /\ create_application(0, u, Body(1, 1))
    \/ \E t \in Headers, i \in AppIds, p \in PaymentPatches : admin_update_application(t, i, p)
    \/ \E t \in Headers : admin_get_stats(t)

SpecStats == InitOffice /\ [][NextStats]_vars

\* the applications that are not rejected
NotRejected == {k \in 1..Len(applications) : applications[k].status # "rechazado"}

\* what admin_get_stats answers in the current state
current_stats == stats_of(applications, users, destinations)

NextInitRace ==
    \/ \E c \in Clients :
          (\A r \in inflight : r.client # c) /\ initialize_system_find(c)
    \/ \E r \in inflight : initialize_system_insert_admin(r)
    \/ \E r \in inflight : initialize_system_find_destination(r)
    \/ \E r \in inflight : initialize_system_insert_destination(r)

SpecInitRace == Init /\ [][NextInitRace]_vars

\* C26: initialize_system calls, also when two run at once, leave one default
\* superadmin and at most one destination for each country code they seed.
C26_OneSuperadminOnePerCode ==
    /\ Cardinality({k \in 1..Len(admins) : admins[k].email = "josemgt91@gmail.com"}) <= 1
    /\ \A i, j \in 1..Len(destinations) :
          destinations[i].country_code = destinations[j].country_code => i = j

\* ------------------ SpecContent: testimonials and advisors, shown and hidden
MaxContent == 2
TestimonialData == {[client_name |-> "Yanet"]}
AdvisorData == {[name |-> "Luis"]}
ContentIds == 1..MaxContent

NextContent ==
    \/ Tick(MaxClock)
    \/ \E t \in Headers, d \in TestimonialData :
          ids.testimonial <= MaxContent /\ admin_create_testimonial(t, d)
    \/ \E t \in Headers, i \in ContentIds : admin_toggle_testimonial(t, i)
    \/ get_testimonials
    \/ \E t \in Headers : admin_get_all_testimonials(t)
    \/ \E t \in Headers, d \in AdvisorData :
          ids.advisor <= MaxContent /\ admin_create_advisor(t, d)
    \/ \E t \in Headers, i \in ContentIds : admin_toggle_advisor(t, i)
    \/ get_advisors
    \/ \E t \in Headers : admin_get_all_advisors(t)

SpecContent == InitOffice /\ [][NextContent]_vars

\* the ids of the records of a listing or a collection
IdsOf(records) == {records[k].id : k \in 1..Len(records)}
ActiveIds(coll) == {coll[k].id : k \in {n \in 1..Len(coll) : coll[n].is_active}}

\* each record once, none created after the one listed before it
NewestFirst(items) ==
    /\ Cardinality(IdsOf(items)) = Len(items)
    /\ \A k \in 1..Len(items) - 1 : items[k].created_at >= items[k + 1].created_at

\* the collection a listing reads
Listed(op) ==
    IF op \in {"get_testimonials", "admin_get_all_testimonials"} THEN testimonials
    ELSE advisors

\* C27: get_testimonials and get_advisors answer exactly the records whose
\* is_active is true, newest first; the admin listings answer all records.
C27_PublicListsActiveNewestFirst ==
    /\ (last.op \in {"get_testimonials", "get_advisors"})
       => /\ IdsOf(last.items) = ActiveIds(Listed(last.op))
          /\ NewestFirst(last.items)
    /\ (last.op \in {"admin_get_all_testimonials", "admin_get_all_advisors"}
        /\ last.code = 200)
       => /\ IdsOf(last.items) = IdsOf(Listed(last.op))
          /\ Len(last.items) = Len(Listed(last.op))

\* ------------------ SpecDocRace: an upload while a document is being removed
NextDocRace ==
    \/ ids.app <= MaxStatusApps /\ create_application(0, 1, Body(1, 1))
    \/ Tick(MaxClock)
    \/ \E d \in DocData : ids.doc <= MaxDocs + 1 /\ upload_document(1, 1, 1, d)
    \/ \E t \in Headers, k \in AnyDocIds :
          /\ \A r \in inflight : r.pc = "done"
          /\ admin_delete_document_find("A", t, 1, k)
    \/ \E r \in inflight : admin_delete_document_set(r)

SpecDocRace == InitOffice /\ [][NextDocRace]_vars

\* C28: a document in an application's list stays there in every step, except
\* the step in which admin_delete_document writes for that document's id and
\* the step that deletes the application.
C28_NoDocumentLost ==
    [][\A k \in 1..Len(applications) :
          \A n \in 1..Len(applications[k].documents) :
             \/ ~HasApp(applications[k].id)'
             \/ applications[k].documents[n].id \in IdsOf(App(applications[k].id)'.documents)
             \/ \E r \in inflight :
                   /\ admin_delete_document_set(r)
                   /\ r.document_id = applications[k].documents[n].id]_vars

\* ------------------ SpecOrphan: an application created while its user is deleted
NextOrphan ==
    \/ \E u \in UserIds :
          /\ ids.app <= MaxApps
          /\ \A r \in inflight : r.client = "A" => r.pc = "done"
          /\ create_application_find_user("A", u, Body(1, 1))
    \/ \E r \in inflight : create_application_find_destination(r)
    \/ \E r \in inflight : create_application_insert(r)
    \/ \E t \in Headers, u \in UserIds :
          /\ \A r \in inflight : r.client = "B" => r.pc = "done"
          /\ admin_delete_user_find("B", t, u)
    \/ \E r \in inflight : admin_delete_user_delete_many(r)
    \/ \E r \in inflight : admin_delete_user_delete_one(r)

SpecOrphan == InitOffice /\ [][NextOrphan]_vars

\* no request is between two of its steps
Quiescent == \A r \in inflight : r.pc = "done"

\* C29: when no request is in flight, the user_id of every application is the
\* id of a user record.
C29_ApplicationsHaveOwners ==
    Quiescent => \A k \in 1..Len(applications) : HasUser(applications[k].user_id)

\* ------------------ SpecVerify: verification codes, resent and expired
\* the codes the server can draw and a client can present
Codes == {"000000", "111111"}
VerifyData == {[email |-> e, code |-> c] : e \in {"maria@x", "ana@x"}, c \in Codes}

NextVerify ==
    \/ \E d \in Maria : ids.user <= MaxUsers /\ register_user(d)
    \/ Tick(MaxClock + 2)
    \/ \E d \in VerifyData : verify_email(d)
    \/ \E e \in {"maria@x", "ana@x", None}, c \in Codes : resend_verification(e, c)
    \/ \E c \in UserLogins : login_user(c)
    \/ \E u \in UserIds, p \in ProfilePatches : update_user(u, u, p)

SpecVerify == Init /\ [][NextVerify]_vars

\* the answered request presented the code stored for this user, in time
PresentedStoredCode(user) ==
    /\ last'.op = "verify_email" /\ last'.email = user.email
    /\ last'.presented = user.verification_token
    /\ now <= user.verification_token_expires

\* C30: email_verified turns true only in a verify_email answered 200 that
\* presented the code stored for the user at that moment, no later than its
\* expiry, and that step clears the stored code; a verify_email for an
\* unverified user with another code (wrong, or replaced by a resend) or after
\* the expiry answers 400 and leaves the record as it is; a new record starts
\* unverified, and no step turns the flag back to false.
C30_VerifiedOnlyByCurrentCode ==
    [][/\ \A k \in 1..Len(users) :
             LET user == users[k]
                 after == users'[k]
             IN /\ user.email_verified => after.email_verified
                /\ (~user.email_verified /\ after.email_verified)
                   => /\ PresentedStoredCode(user)
                      /\ last'.code = 200
                      /\ after.verification_token = None
                /\ (/\ ~user.email_verified
                    /\ last'.op = "verify_email" /\ last'.email = user.email
                    /\ ~PresentedStoredCode(user))
                   => /\ after = user
                      /\ last'.code = 400
       /\ \A k \in Len(users) + 1..Len(users') : ~users'[k].email_verified]_vars

\* Maria is verified by the code of a resend, presented a day and a half after
\* she registered, when the code of her registration had expired
C30_Witness ==
    /\ last.op = "verify_email" /\ last.code = 200 /\ last.presented = "111111"
    /\ now > 1440
    /\ Len(users) = 1
    /\ users[1].email_verified /\ users[1].verification_token = None
    /\ users[1].verification_token_expires > 1440

====
